---- MODULE Spec2Model ----
(***************************************************************************)
(* Undoable document operations of veusz (document/operations.py).        *)
(*                                                                         *)
(* The document is one record `doc`: the name -> dataset mapping, the      *)
(* dataset objects (by identity), the file links with their rename         *)
(* metadata, the widget tree with its settings, and the undo/redo/batch    *)
(* history.  Every operation class is a pair of operators XDo(d, op) /     *)
(* XUndo(d, op) that return the new document, the operation object with    *)
(* the attributes it assigned, and whether the method returned normally    *)
(* (ok) or raised.                                                         *)
(***************************************************************************)
EXTENDS Integers, Sequences, FiniteSets, TLC

VARIABLES doc, snap, last, pending

vars == <<doc, snap, last, pending>>

\* Python's None, and an attribute that has not been assigned yet.  Values
\* of different kinds cannot be compared, so each kind of value has its own
\* None: a name or link, an object reference, a column, a pair, a dict.
None == "None"
Unset == "Unset"
NoneId == 0
UnsetId == 0 - 1
NoneCol == <<0 - 1>>
NonePair == <<"None", "None">>
UnsetPair == <<"Unset", "Unset">>
NoneDict == <<NonePair>>

----------------------------------------------------------------------------
(* Bounds *)

MaxObj == 4        \* dataset objects that may be allocated
MaxHist == 1       \* depth of the undo stack that is explored
MaxRenames == 2    \* depth of the undo stack when renaming datasets

DsNames == {"x", "y", "z"}
DsIds == 1..MaxObj
LinkIds == {"f"}
ColNames == {"data", "serr", "perr", "nerr"}

----------------------------------------------------------------------------
(* Generic helpers *)

Ret(ok, d, op) == [ok |-> ok, doc |-> d, op |-> op]

Last(s) == s[Len(s)]
Front(s) == SubSeq(s, 1, Len(s) - 1)

RECURSIVE Reverse(_)
Reverse(s) == IF s = <<>> THEN <<>> ELSE Append(Reverse(Tail(s)), Head(s))

Range(s) == {s[i] : i \in 1..Len(s)}

RemoveAt(s, i) == SubSeq(s, 1, i - 1) \o SubSeq(s, i + 1, Len(s))

\* list.insert(i, x) with a 0-based index i >= 0 (an index past the end appends)
InsertAt(s, i, x) ==
    LET k == IF i > Len(s) THEN Len(s) ELSE i
    IN SubSeq(s, 1, k) \o <<x>> \o SubSeq(s, k + 1, Len(s))

\* an insertion-ordered dict, kept as a sequence of <<key, value>> pairs
DictKeys(dict) == {dict[i][1] : i \in 1..Len(dict)}
DictIdx(dict, k) == CHOOSE i \in 1..Len(dict) : dict[i][1] = k
DictGet(dict, k) == dict[DictIdx(dict, k)][2]
DictSet(dict, k, v) ==
    IF k \in DictKeys(dict)
    THEN [dict EXCEPT ![DictIdx(dict, k)] = <<k, v>>]
    ELSE Append(dict, <<k, v>>)
DictDel(dict, k) == RemoveAt(dict, DictIdx(dict, k))

----------------------------------------------------------------------------
(* The document's dataset interface *)

HasData(d, name) == d.data[name] # NoneId

SetData(d, name, ds) == [d EXCEPT !.data[name] = ds]

\* del self.data[name]; the caller checks HasData first (KeyError otherwise)
DeleteData(d, name) == [d EXCEPT !.data[name] = NoneId]

RenameDataset(d, oldname, newname) ==
    LET ds == d.data[oldname]
    IN SetData(DeleteData(d, oldname), newname, ds)

\* the columns of a dataset: 'data' and the optional error columns
Cols(data, serr, perr, nerr) ==
    [data |-> data, serr |-> serr, perr |-> perr, nerr |-> nerr]

\* a dataset object: live is None for a plain dataset holding values, or
\* the class of a dataset that re-evaluates itself ("range", "expression",
\* "2dxyz", "2dexpr", "2dxyfunc"); data2d is the matrix of a 2D dataset
DsObject(cols, dims, live) ==
    [cols |-> cols, data2d |-> <<>>, dims |-> dims, live |-> live,
     linked |-> None, tags |-> {}]

\* constructing a dataset makes a new object; its identity is d1.nobj
NewObj(d, o) ==
    [d EXCEPT !.nobj = d.nobj + 1, !.obj[d.nobj + 1] = o]

\* dataset.returnCopy(): a new plain object with copies of the columns
ReturnCopy(d, ds) ==
    NewObj(d, [DsObject(d.obj[ds].cols, d.obj[ds].dims, None)
                 EXCEPT !.data2d = d.obj[ds].data2d])

\* truth value of a dataset object in "if self.olddataset:"
Truthy(ds) == ds # NoneId

Zeros(col) == [i \in 1..Len(col) |-> 0]

----------------------------------------------------------------------------
(* OperationDatasetSet *)

OpDatasetSet(name, ds) ==
    [kind |-> "DatasetSet", datasetname |-> name, dataset |-> ds,
     olddata |-> UnsetId]

DatasetSetDo(d, op) ==
    LET old == IF HasData(d, op.datasetname) THEN d.data[op.datasetname]
               ELSE NoneId
    IN Ret(TRUE, SetData(d, op.datasetname, op.dataset),
           [op EXCEPT !.olddata = old])

DatasetSetUndo(d, op) ==
    IF ~HasData(d, op.datasetname) THEN Ret(FALSE, d, op)
    ELSE LET d1 == DeleteData(d, op.datasetname)
         IN IF op.olddata = UnsetId THEN Ret(FALSE, d1, op)
            ELSE IF op.olddata # NoneId
                 THEN Ret(TRUE, SetData(d1, op.datasetname, op.olddata), op)
                 ELSE Ret(TRUE, d1, op)

(* OperationDatasetDelete *)

OpDatasetDelete(name) ==
    [kind |-> "DatasetDelete", datasetname |-> name, olddata |-> UnsetId]

DatasetDeleteDo(d, op) ==
    IF ~HasData(d, op.datasetname) THEN Ret(FALSE, d, op)
    ELSE Ret(TRUE, DeleteData(d, op.datasetname),
             [op EXCEPT !.olddata = d.data[op.datasetname]])

DatasetDeleteUndo(d, op) ==
    IF op.olddata = UnsetId THEN Ret(FALSE, d, op)
    ELSE Ret(TRUE, SetData(d, op.datasetname, op.olddata), op)

(* OperationDatasetRename *)

OpDatasetRename(oldname, newname) ==
    [kind |-> "DatasetRename", oldname |-> oldname, newname |-> newname,
     origname |-> Unset, origrename |-> UnsetPair]

\* index of the first item of p.renames whose value is name, 0 if there is none
FirstRenameTo(ren, name) ==
    LET hits == {i \in 1..Len(ren) : ren[i][2] = name}
    IN IF hits = {} THEN 0
       ELSE CHOOSE i \in hits : \A j \in hits : i <= j

DatasetRenameDo(d, op) ==
    IF ~HasData(d, op.oldname) THEN Ret(FALSE, d, op)
    ELSE
      LET ds == d.data[op.oldname]
          lk == d.obj[ds].linked
          op0 == [op EXCEPT !.origname = None, !.origrename = NonePair]
      IN IF lk = None
         THEN Ret(TRUE, RenameDataset(d, op.oldname, op.newname), op0)
         ELSE
           LET ren0 == IF d.renames[lk] = NoneDict THEN <<>> ELSE d.renames[lk]
               hit == FirstRenameTo(ren0, op.oldname)
               origname == IF hit = 0 THEN op.oldname ELSE ren0[hit][1]
               origrename == IF hit = 0 THEN NonePair ELSE ren0[hit]
               ren1 == DictSet(ren0, origname, op.newname)
               d1 == [d EXCEPT !.renames[lk] = ren1]
           IN Ret(TRUE, RenameDataset(d1, op.oldname, op.newname),
                  [op0 EXCEPT !.origname = origname,
                              !.origrename = origrename])

DatasetRenameUndo(d, op) ==
    IF ~HasData(d, op.newname) THEN Ret(FALSE, d, op)
    ELSE
      LET ds == d.data[op.newname]
          lk == d.obj[ds].linked
      IN IF lk = None
         THEN Ret(TRUE, RenameDataset(d, op.newname, op.oldname), op)
         ELSE IF \/ op.origname = Unset
                 \/ d.renames[lk] = NoneDict
                 \/ op.origname \notin DictKeys(d.renames[lk])
              THEN Ret(FALSE, d, op)
              ELSE
                LET ren1 == DictDel(d.renames[lk], op.origname)
                    ren2 == IF op.origrename # NonePair
                            THEN DictSet(ren1, op.origrename[1],
                                         op.origrename[2])
                            ELSE ren1
                    d1 == [d EXCEPT !.renames[lk] = ren2]
                IN Ret(TRUE, RenameDataset(d1, op.newname, op.oldname), op)

(* OperationDatasetDuplicate *)

OpDatasetDuplicate(origname, duplname) ==
    [kind |-> "DatasetDuplicate", origname |-> origname,
     duplname |-> duplname, olddata |-> UnsetId]

DatasetDuplicateDo(d, op) ==
    LET op1 == [op EXCEPT !.olddata = d.data[op.duplname]]
    IN IF ~HasData(d, op.origname) THEN Ret(FALSE, d, op1)
       ELSE LET d1 == ReturnCopy(d, d.data[op.origname])
            IN Ret(TRUE, SetData(d1, op.duplname, d1.nobj), op1)

DatasetDuplicateUndo(d, op) ==
    IF op.olddata = UnsetId THEN Ret(FALSE, d, op)
    ELSE IF op.olddata = NoneId
         THEN IF ~HasData(d, op.duplname) THEN Ret(FALSE, d, op)
              ELSE Ret(TRUE, DeleteData(d, op.duplname), op)
         ELSE Ret(TRUE, SetData(d, op.duplname, op.olddata), op)

(* OperationDatasetUnlinkFile *)

OpDatasetUnlinkFile(name) ==
    [kind |-> "DatasetUnlinkFile", datasetname |-> name,
     oldfilelink |-> Unset]

DatasetUnlinkFileDo(d, op) ==
    IF ~HasData(d, op.datasetname) THEN Ret(FALSE, d, op)
    ELSE LET ds == d.data[op.datasetname]
         IN Ret(TRUE, [d EXCEPT !.obj[ds].linked = None],
                [op EXCEPT !.oldfilelink = d.obj[ds].linked])

DatasetUnlinkFileUndo(d, op) ==
    IF ~HasData(d, op.datasetname) \/ op.oldfilelink = Unset
    THEN Ret(FALSE, d, op)
    ELSE LET ds == d.data[op.datasetname]
         IN Ret(TRUE, [d EXCEPT !.obj[ds].linked = op.oldfilelink], op)

(* OperationDatasetUnlinkRelation *)

OpDatasetUnlinkRelation(name) ==
    [kind |-> "DatasetUnlinkRelation", datasetname |-> name,
     olddataset |-> UnsetId]

DatasetUnlinkRelationDo(d, op) ==
    IF ~HasData(d, op.datasetname) THEN Ret(FALSE, d, op)
    ELSE LET ds == d.data[op.datasetname]
             d1 == ReturnCopy(d, ds)
         IN Ret(TRUE, SetData(d1, op.datasetname, d1.nobj),
                [op EXCEPT !.olddataset = ds])

DatasetUnlinkRelationUndo(d, op) ==
    IF op.olddataset = UnsetId THEN Ret(FALSE, d, op)
    ELSE Ret(TRUE, SetData(d, op.datasetname, op.olddataset), op)

(* OperationDatasetAddColumn *)

OpDatasetAddColumn(name, col) ==
    [kind |-> "DatasetAddColumn", datasetname |-> name, columnname |-> col]

\* setattr(ds, name, value): the columns are the attributes a dataset has
\* for values; a name that is no column raises AttributeError
SetAttr(d, ds, name, value) ==
    IF name \in ColNames
    THEN [ok |-> TRUE, doc |-> [d EXCEPT !.obj[ds].cols[name] = value]]
    ELSE [ok |-> FALSE, doc |-> d]

DatasetAddColumnDo_swallow(d, op) ==
    IF ~HasData(d, op.datasetname) THEN Ret(FALSE, d, op)
    ELSE LET ds == d.data[op.datasetname]
             datacol == d.obj[ds].cols.data
         IN IF datacol = NoneCol THEN Ret(FALSE, d, op)
            ELSE Ret(TRUE, SetData(SetAttr(d, ds, op.columnname,
                                           Zeros(datacol)).doc,
                                   op.datasetname, ds), op)

DatasetAddColumnDo(d, op) ==
    IF ~HasData(d, op.datasetname) THEN Ret(FALSE, d, op)
    ELSE LET ds == d.data[op.datasetname]
             datacol == d.obj[ds].cols.data
         IN IF datacol = NoneCol THEN Ret(FALSE, d, op)
            ELSE
         LET r == SetAttr(d, ds, op.columnname, Zeros(datacol))
         IN IF ~r.ok THEN Ret(FALSE, r.doc, op)
            ELSE Ret(TRUE, SetData(r.doc, op.datasetname, ds), op)

DatasetAddColumnUndo(d, op) ==
    IF ~HasData(d, op.datasetname) THEN Ret(FALSE, d, op)
    ELSE LET ds == d.data[op.datasetname]
             r == SetAttr(d, ds, op.columnname, NoneCol)
         IN IF ~r.ok THEN Ret(FALSE, r.doc, op)
            ELSE Ret(TRUE, SetData(r.doc, op.datasetname, ds), op)

(* OperationDatasetCreate (base class) *)

DatasetCreateDo_nobackup(d, op) == [op EXCEPT !.olddataset = NoneId]

DatasetCreateDo(d, op) == [op EXCEPT !.olddataset = d.data[op.datasetname]]

DatasetCreateUndo(d, op) ==
    IF ~HasData(d, op.datasetname) THEN Ret(FALSE, d, op)
    ELSE LET d1 == DeleteData(d, op.datasetname)
         IN IF op.olddataset = UnsetId THEN Ret(FALSE, d1, op)
            ELSE IF op.olddataset # NoneId
                 THEN Ret(TRUE, SetData(d1, op.datasetname, op.olddataset),
                          op)
                 ELSE Ret(TRUE, d1, op)

(* OperationDatasetCreateRange *)

\* parts maps 'data' and optionally 'serr', 'perr', 'nerr' to (start, stop);
\* a part that is not given is NoneRange
NoneRange == <<0, 0 - 1>>

OpDatasetCreateRange(name, numsteps, parts, linked) ==
    [kind |-> "DatasetCreateRange", datasetname |-> name,
     numsteps |-> numsteps, parts |-> parts, linked |-> linked,
     olddataset |-> UnsetId]

\* datasets.DatasetRange: numsteps values from start to stop
RangeVals(numsteps, r) ==
    IF r = NoneRange THEN NoneCol
    ELSE [i \in 1..numsteps |->
            IF numsteps = 1 THEN r[1]
            ELSE r[1] + ((i - 1) * (r[2] - r[1])) \div (numsteps - 1)]

DatasetCreateRangeDo(d, op) ==
    LET op1 == DatasetCreateDo(d, op)
    IN IF op.parts.data = NoneRange THEN Ret(FALSE, d, op1)
       ELSE
         LET cols == [c \in ColNames |-> RangeVals(op.numsteps, op.parts[c])]
             d1 == NewObj(d, DsObject(cols, 1, "range"))
             d2 == IF ~op.linked
                   THEN NewObj(d1, DsObject(cols, 1, None))
                   ELSE d1
         IN Ret(TRUE, SetData(d2, op.datasetname, d2.nobj), op1)

(* OperationDatasetCreateParameteric and OperationDatasetCreateExpression *)

\* evalcols is what the expressions in parts evaluate to in this document
OpDatasetCreateParameteric(name, evalcols, linked) ==
    [kind |-> "DatasetCreateParameteric", datasetname |-> name,
     evalcols |-> evalcols, linked |-> linked, olddataset |-> UnsetId]

DatasetCreateParametericDo(d, op) ==
    LET op1 == DatasetCreateDo(d, op)
        d1 == NewObj(d, DsObject(op.evalcols, 1, "expression"))
        d2 == IF ~op.linked
              THEN NewObj(d1, DsObject(op.evalcols, 1, None))
              ELSE d1
    IN Ret(TRUE, SetData(d2, op.datasetname, d2.nobj), op1)

OpDatasetCreateExpression(name, evalcols, link) ==
    [kind |-> "DatasetCreateExpression", datasetname |-> name,
     evalcols |-> evalcols, link |-> link, olddataset |-> UnsetId]

\* ds.updateEvaluation(): True when the expressions could be evaluated
UpdateEvaluation(cols) == cols.data # NoneCol

\* what a validation step gives: the document, whether it returned (ok)
\* or raised (exc names the exception), and the value returned
Validated(ok, exc, result, d) ==
    [ok |-> ok, exc |-> exc, result |-> result, doc |-> d]

DatasetCreateExpressionValidate_install(d, op) ==
    LET d1 == NewObj(d, DsObject(op.evalcols, 1, "expression"))
    IN Validated(TRUE, None, UpdateEvaluation(op.evalcols),
                 SetData(d1, op.datasetname, d1.nobj))

\* OperationDatasetCreateExpression.validateExpression
DatasetCreateExpressionValidate(d, op) ==
    LET d1 == NewObj(d, DsObject(op.evalcols, 1, "expression"))
    IN Validated(TRUE, None, UpdateEvaluation(op.evalcols), d1)

DatasetCreateExpressionDo(d, op) ==
    LET op1 == DatasetCreateDo(d, op)
        d1 == NewObj(d, DsObject(op.evalcols, 1, "expression"))
        d2 == IF ~op.link
              THEN NewObj(d1, DsObject(op.evalcols, 1, None))
              ELSE d1
    IN Ret(TRUE, SetData(d2, op.datasetname, d2.nobj), op1)

(* OperationDataset2DBase and its three subclasses *)

TwoDKinds ==
    {"Dataset2DCreateExpressionXYZ", "Dataset2DCreateExpression",
     "Dataset2DXYFunc"}

\* evaldata is the matrix the expressions evaluate to in this document
OpDataset2D(kind, name, evaldata, link) ==
    [kind |-> kind, datasetname |-> name, evaldata |-> evaldata,
     link |-> link, olddataset |-> UnsetId]

\* makeDSClass of the three subclasses
MakeDSClass(op) ==
    LET live == CASE op.kind = "Dataset2DCreateExpressionXYZ" -> "2dxyz"
                  [] op.kind = "Dataset2DCreateExpression" -> "2dexpr"
                  [] op.kind = "Dataset2DXYFunc" -> "2dxyfunc"
    IN [DsObject(Cols(NoneCol, NoneCol, NoneCol, NoneCol), 2, live)
         EXCEPT !.data2d = op.evaldata]

\* ds.data.shape of a 2D dataset: rows and columns
Shape(data2d) ==
    <<Len(data2d), IF data2d = <<>> THEN 0 ELSE Len(data2d[1])>>

Dataset2DBaseValidate_rows(d, op) ==
    LET d1 == NewObj(d, MakeDSClass(op))
    IN IF Shape(d1.obj[d1.nobj].data2d)[1] = 0
       THEN Validated(FALSE, "CreateDatasetException", FALSE, d1)
       ELSE Validated(TRUE, None, TRUE, d1)

\* OperationDataset2DBase.validateExpression
Dataset2DBaseValidate(d, op) ==
    LET d1 == NewObj(d, MakeDSClass(op))
    IN IF 0 \in Range(Shape(d1.obj[d1.nobj].data2d))
       THEN Validated(FALSE, "CreateDatasetException", FALSE, d1)
       ELSE Validated(TRUE, None, TRUE, d1)

Dataset2DBaseDo(d, op) ==
    LET op1 == [op EXCEPT !.olddataset = d.data[op.datasetname]]
        d1 == NewObj(d, MakeDSClass(op))
        d2 == IF ~op.link
              THEN NewObj(d1, [d1.obj[d1.nobj] EXCEPT !.live = None])
              ELSE d1
    IN Ret(TRUE, SetData(d2, op.datasetname, d2.nobj), op1)

Dataset2DBaseUndo(d, op) ==
    IF ~HasData(d, op.datasetname) THEN Ret(FALSE, d, op)
    ELSE LET d1 == DeleteData(d, op.datasetname)
         IN IF op.olddataset = UnsetId THEN Ret(FALSE, d1, op)
            ELSE IF Truthy(op.olddataset)
                 THEN Ret(TRUE, SetData(d1, op.datasetname, op.olddataset),
                          op)
                 ELSE Ret(TRUE, d1, op)

----------------------------------------------------------------------------
(* Rows of datasets *)

UnsetCol == <<0 - 2>>
UnsetSaved == Cols(UnsetCol, UnsetCol, UnsetCol, UnsetCol)

\* an empty dict of saved rows: no column has an entry
NoSaved == Cols(NoneCol, NoneCol, NoneCol, NoneCol)

\* dataset.deleteRows(row, numrows): rows [row, row+numrows) leave every
\* column the dataset has; the rows removed are returned, by column
DeleteRows(d, ds, row, numrows) ==
    LET cols == d.obj[ds].cols
    IN [doc |-> [d EXCEPT !.obj[ds].cols =
                    [c \in ColNames |->
                        IF cols[c] = NoneCol THEN NoneCol
                        ELSE SubSeq(cols[c], 1, row)
                             \o SubSeq(cols[c], row + numrows + 1, Len(cols[c]))]],
        saved |-> [c \in ColNames |->
                     IF cols[c] = NoneCol THEN NoneCol
                     ELSE SubSeq(cols[c], row + 1, row + numrows)]]

\* dataset.insertRows(row, numrows, saved): numrows rows enter every column
\* the dataset has at position row, holding the saved values of the column
\* and zero where none was saved
InsertRows(d, ds, row, numrows, saved) ==
    LET cols == d.obj[ds].cols
        new(c) == [i \in 1..numrows |->
                     IF saved[c] # NoneCol /\ i <= Len(saved[c])
                     THEN saved[c][i] ELSE 0]
    IN [d EXCEPT !.obj[ds].cols =
           [c \in ColNames |->
               IF cols[c] = NoneCol THEN NoneCol
               ELSE SubSeq(cols[c], 1, row) \o new(c)
                    \o SubSeq(cols[c], row + 1, Len(cols[c]))]]

(* OperationDatasetDeleteRow *)
OpDatasetDeleteRow(datasetname, row, numrows) ==
    [kind |-> "DatasetDeleteRow", datasetname |-> datasetname, row |-> row,
     numrows |-> numrows, saveddata |-> UnsetSaved]

DatasetDeleteRowDo_count(d, op) ==
    IF ~HasData(d, op.datasetname) THEN Ret(FALSE, d, op)
    ELSE Ret(TRUE, DeleteRows(d, d.data[op.datasetname], op.row, op.numrows).doc,
             [op EXCEPT !.saveddata = NoSaved])

DatasetDeleteRowDo(d, op) ==
    IF ~HasData(d, op.datasetname) THEN Ret(FALSE, d, op)
    ELSE LET r == DeleteRows(d, d.data[op.datasetname], op.row, op.numrows)
         IN Ret(TRUE, r.doc, [op EXCEPT !.saveddata = r.saved])

DatasetDeleteRowUndo(d, op) ==
    IF ~HasData(d, op.datasetname) \/ op.saveddata = UnsetSaved
    THEN Ret(FALSE, d, op)
    ELSE Ret(TRUE, InsertRows(d, d.data[op.datasetname], op.row, op.numrows,
                              op.saveddata), op)

(* OperationDatasetInsertRow *)
OpDatasetInsertRow(datasetname, row, numrows) ==
    [kind |-> "DatasetInsertRow", datasetname |-> datasetname, row |-> row,
     numrows |-> numrows]

DatasetInsertRowDo(d, op) ==
    IF ~HasData(d, op.datasetname) THEN Ret(FALSE, d, op)
    ELSE Ret(TRUE, InsertRows(d, d.data[op.datasetname], op.row, op.numrows,
                              NoSaved), op)

DatasetInsertRowUndo(d, op) ==
    IF ~HasData(d, op.datasetname) THEN Ret(FALSE, d, op)
    ELSE Ret(TRUE, DeleteRows(d, d.data[op.datasetname], op.row, op.numrows).doc,
             op)

----------------------------------------------------------------------------
(* Tags of datasets *)

TagNames == {"T", "U"}
UnsetNames == <<Unset>>

(* OperationDataTag *)
OpDataTag(tag, datasetnames) ==
    [kind |-> "DataTag", tag |-> tag, datasetnames |-> datasetnames,
     removetags |-> UnsetNames]

RECURSIVE DataTagFrom(_, _, _)

DataTagFrom_all(d, op, names) ==
    IF names = <<>> THEN Ret(TRUE, d, op)
    ELSE IF ~HasData(d, Head(names)) THEN Ret(FALSE, d, op)
    ELSE DataTagFrom(
             [d EXCEPT !.obj[d.data[Head(names)]].tags = @ \cup {op.tag}],
             [op EXCEPT !.removetags = Append(@, Head(names))], Tail(names))

\* the loop over datasetnames of do; document.data[name] raises KeyError
\* for a name that is not in the document
DataTagFrom(d, op, names) ==
    IF names = <<>> THEN Ret(TRUE, d, op)
    ELSE LET name == Head(names)
             existing == d.obj[d.data[name]].tags
         IN IF ~HasData(d, name) THEN Ret(FALSE, d, op)
            ELSE IF op.tag \notin existing
            THEN DataTagFrom(
                     [d EXCEPT !.obj[d.data[name]].tags = @ \cup {op.tag}],
                     [op EXCEPT !.removetags = Append(@, name)], Tail(names))
            ELSE DataTagFrom(d, op, Tail(names))

DataTagDo(d, op) ==
    DataTagFrom(d, [op EXCEPT !.removetags = <<>>], op.datasetnames)

\* the loop over the names of an undo or do that removes the tag;
\* set.remove raises KeyError when the tag is not in the set
RECURSIVE TagsRemoveFrom(_, _, _)
TagsRemoveFrom(d, op, names) ==
    IF names = <<>> THEN Ret(TRUE, d, op)
    ELSE LET name == Head(names)
         IN IF ~HasData(d, name) THEN Ret(FALSE, d, op)
            ELSE IF op.tag \notin d.obj[d.data[name]].tags
            THEN Ret(FALSE, d, op)
            ELSE TagsRemoveFrom(
                     [d EXCEPT !.obj[d.data[name]].tags = @ \ {op.tag}],
                     op, Tail(names))

DataTagUndo(d, op) ==
    IF op.removetags = UnsetNames THEN Ret(FALSE, d, op)
    ELSE TagsRemoveFrom(d, op, op.removetags)

(* OperationDataUntag *)
OpDataUntag(tag, datasetnames) ==
    [kind |-> "DataUntag", tag |-> tag, datasetnames |-> datasetnames]

DataUntagDo(d, op) == TagsRemoveFrom(d, op, op.datasetnames)

\* the loop over datasetnames of undo
RECURSIVE TagsAddFrom(_, _, _)
TagsAddFrom(d, op, names) ==
    IF names = <<>> THEN Ret(TRUE, d, op)
    ELSE IF ~HasData(d, Head(names)) THEN Ret(FALSE, d, op)
    ELSE TagsAddFrom(
             [d EXCEPT !.obj[d.data[Head(names)]].tags = @ \cup {op.tag}],
             op, Tail(names))

DataUntagUndo(d, op) == TagsAddFrom(d, op, op.datasetnames)

----------------------------------------------------------------------------
(* The widget tree of the document: widgets by identity, each with a name, *)
(* a parent, an ordered list of children and its settings.  A path is the  *)
(* string '/name/name', kept as the sequence of its characters.            *)

WIds == 1..7
SettingNames == {"color"}

UnsetPath == <<"Unset">>
UnsetList == <<UnsetId>>
UnsetIndex == 0 - 2

\* document.basewidget
BaseWidget == 1

\* the value a setting holds: a literal, or a reference to another setting
Literal(v) == [isref |-> FALSE, val |-> v, target |-> None]
Reference(t) == [isref |-> TRUE, val |-> 0, target |-> t]
UnsetValue == [isref |-> FALSE, val |-> 0 - 1, target |-> Unset]

\* the value of the stylesheet's setting
StyleVal == 3

\* the settings of the stylesheet that a reference can name
StyleNames == {"s"}

\* setting.isReference(), setting.getReference(): the binding itself
IsReference(s) == s.isref
GetReference(s) == Reference(s.target)

\* setting.get(), setting.val: the value, a reference followed to its target
Get(d, s) == IF s.isref THEN d.style[s.target] ELSE s.val

\* a widget name or a type name that was not given
NoneName == <<"None">>
NonePath == <<"None">>

\* the calls made during one do or undo, for the record
Log(d, ev) == [d EXCEPT !.log = Append(d.log, ev)]

RECURSIVE Build(_, _)
Build(d, w) ==
    IF d.wparent[w] = NoneId THEN <<>>
    ELSE Build(d, d.wparent[w]) \o <<"/">> \o d.wname[w]

\* widget.path
WidgetPath(d, w) == IF Build(d, w) = <<>> THEN <<"/">> ELSE Build(d, w)

\* path.split('/') without the empty parts
RECURSIVE Split(_, _)
Split(p, cur) ==
    IF p = <<>> THEN (IF cur = <<>> THEN <<>> ELSE <<cur>>)
    ELSE IF Head(p) = "/"
         THEN (IF cur = <<>> THEN <<>> ELSE <<cur>>) \o Split(Tail(p), <<>>)
         ELSE Split(Tail(p), Append(cur, Head(p)))

\* the position (0-based) of the first element of s satisfying x, or -1
IndexOf(s, x) ==
    LET idx == {i \in 1..Len(s) : s[i] = x}
    IN IF idx = {} THEN 0 - 1
       ELSE (CHOOSE i \in idx : \A j \in idx : i <= j) - 1

ChildNames(d, w) == [i \in 1..Len(d.children[w]) |-> d.wname[d.children[w][i]]]

RECURSIVE Walk(_, _, _)
Walk(d, w, names) ==
    IF names = <<>> THEN w
    ELSE LET i == IndexOf(ChildNames(d, w), Head(names))
         IN IF i < 0 THEN NoneId
            ELSE Walk(d, d.children[w][i + 1], Tail(names))

\* document.resolveFullWidgetPath(path); NoneId: no such widget (it raises)
ResolveFullWidgetPath(d, path) == Walk(d, BaseWidget, Split(path, <<>>))

\* widget.removeChild(name): the first child of that name
RemoveChild(d, w, name) ==
    [d EXCEPT !.children[w] =
        RemoveAt(@, IndexOf(ChildNames(d, w), name) + 1)]

\* widget.addChild(child, index)
AddChild(d, w, child, index) ==
    [d EXCEPT !.children[w] = InsertAt(@, index, child)]

(* OperationSettingSet *)
OpSettingSet(wpath, sname, value) ==
    [kind |-> "SettingSet", widgetpath |-> wpath, setting |-> sname,
     value |-> value, oldvalue |-> UnsetValue]

\* document.resolveFullSettingPath(path): the widget holding the setting,
\* or NoneId when the path names no setting (it raises)
ResolveFullSettingPath(d, wpath, sname) ==
    IF sname \in SettingNames THEN ResolveFullWidgetPath(d, wpath)
    ELSE NoneId

SettingSetDo_norecord(d, op) ==
    LET w == ResolveFullSettingPath(d, op.widgetpath, op.setting)
    IN IF w = NoneId THEN Ret(FALSE, d, op)
       ELSE Ret(TRUE, [d EXCEPT !.wset[w][op.setting] = op.value],
                [op EXCEPT !.oldvalue = Literal(0)])

SettingSetDo_resolved(d, op) ==
    LET w == ResolveFullSettingPath(d, op.widgetpath, op.setting)
    IN IF w = NoneId THEN Ret(FALSE, d, op)
       ELSE Ret(TRUE, [d EXCEPT !.wset[w][op.setting] = op.value],
                [op EXCEPT !.oldvalue = Literal(Get(d, d.wset[w][op.setting]))])

SettingSetDo(d, op) ==
    LET w == ResolveFullSettingPath(d, op.widgetpath, op.setting)
        setting == d.wset[w][op.setting]
    IN IF w = NoneId THEN Ret(FALSE, d, op)
       ELSE Ret(TRUE, [d EXCEPT !.wset[w][op.setting] = op.value],
                [op EXCEPT !.oldvalue = IF IsReference(setting)
                                        THEN GetReference(setting)
                                        ELSE Literal(Get(d, setting))])

SettingSetUndo(d, op) ==
    LET w == ResolveFullSettingPath(d, op.widgetpath, op.setting)
    IN IF w = NoneId \/ op.oldvalue = UnsetValue THEN Ret(FALSE, d, op)
       ELSE Ret(TRUE, [d EXCEPT !.wset[w][op.setting] = op.oldvalue], op)

(* OperationSettingPropagate *)
UnsetVals == <<<<UnsetPath, 0 - 1>>>>

\* built from the setting 'sname' of the widget 'source'
OpSettingPropagate(d, source, sname, widgetname, root, maxlevels) ==
    [kind |-> "SettingPropagate", val |-> Get(d, d.wset[source][sname]),
     widgetname |-> widgetname,
     rootpath |-> IF root = NoneId THEN NonePath ELSE WidgetPath(d, root),
     maxlevels |-> maxlevels, setpath |-> sname,
     widgettype |-> d.wtype[source], restorevals |-> UnsetVals]

RECURSIVE RecursiveGet(_, _, _, _, _), RecursiveGetChildren(_, _, _, _, _, _)

RecursiveGet_unbounded(d, root, name, typename, maxlevels) ==
    RecursiveGetChildren(d, root, 1, name, typename, maxlevels - 1)

\* _recursiveGet(root, name, typename, outlist, maxlevels): the widgets
\* appended to outlist, in order
RecursiveGet(d, root, name, typename, maxlevels) ==
    IF maxlevels # 0
    THEN RecursiveGetChildren(d, root, 1, name, typename, maxlevels - 1)
    ELSE <<>>

\* the loop over root.children, from the i-th child on
RecursiveGetChildren(d, root, i, name, typename, newmaxlevels) ==
    IF i > Len(d.children[root]) THEN <<>>
    ELSE LET w == d.children[root][i]
         IN (IF (d.wname[w] = name \/ name = NoneName)
                /\ (d.wtype[w] = typename \/ typename = None)
             THEN <<w>> ELSE <<>>)
            \o RecursiveGet(d, w, name, typename, newmaxlevels)
            \o RecursiveGetChildren(d, root, i + 1, name, typename, newmaxlevels)

\* the loop over widgetlist of do
RECURSIVE PropagateFrom(_, _, _)
PropagateFrom(d, op, widgetlist) ==
    IF widgetlist = <<>> THEN Ret(TRUE, d, op)
    ELSE LET w == Head(widgetlist)
         IN IF op.setpath \notin SettingNames THEN Ret(FALSE, d, op)
            ELSE PropagateFrom(
                     [d EXCEPT !.wset[w][op.setpath] = Literal(op.val)],
                     [op EXCEPT !.restorevals =
                          DictSet(@, WidgetPath(d, w),
                                  Get(d, d.wset[w][op.setpath]))],
                     Tail(widgetlist))

SettingPropagateDo(d, op) ==
    LET root == IF op.rootpath = NonePath THEN BaseWidget
                ELSE ResolveFullWidgetPath(d, op.rootpath)
    IN IF root = NoneId THEN Ret(FALSE, d, op)
       ELSE PropagateFrom(d, [op EXCEPT !.restorevals = <<>>],
                          RecursiveGet(d, root, op.widgetname, op.widgettype,
                                       op.maxlevels))

\* the loop over restorevals of undo
RECURSIVE RestoreFrom(_, _, _)
RestoreFrom(d, op, vals) ==
    IF vals = <<>> THEN Ret(TRUE, d, op)
    ELSE LET w == ResolveFullSettingPath(d, Head(vals)[1], op.setpath)
         IN IF w = NoneId THEN Ret(FALSE, d, op)
            ELSE RestoreFrom([d EXCEPT !.wset[w][op.setpath] = Literal(Head(vals)[2])],
                             op, Tail(vals))

\* an undo that restores only the first recorded value
SettingPropagateUndo_first(d, op) ==
    IF op.restorevals = UnsetVals THEN Ret(FALSE, d, op)
    ELSE RestoreFrom(d, op, SubSeq(op.restorevals, 1, 1))

SettingPropagateUndo(d, op) ==
    IF op.restorevals = UnsetVals THEN Ret(FALSE, d, op)
    ELSE RestoreFrom(d, op, op.restorevals)

(* OperationWidgetDelete *)
OpWidgetDelete(wpath) ==
    [kind |-> "WidgetDelete", widgetpath |-> wpath, oldwidget |-> UnsetId,
     oldparentpath |-> UnsetPath, oldindex |-> UnsetIndex]

WidgetDeleteDo(d, op) ==
    LET w == ResolveFullWidgetPath(d, op.widgetpath)
        oldparent == d.wparent[w]
        op1 == [op EXCEPT !.oldwidget = w]
        d1 == [d EXCEPT !.wparent[w] = NoneId]
        op2 == [op1 EXCEPT !.oldparentpath = WidgetPath(d1, oldparent),
                           !.oldindex = IndexOf(d1.children[oldparent], w)]
    IN IF w = NoneId THEN Ret(FALSE, d, op)
       ELSE IF oldparent = NoneId THEN Ret(FALSE, d1, op1)
       ELSE Ret(TRUE, RemoveChild(d1, oldparent, d1.wname[w]), op2)

WidgetDeleteUndo_noparent(d, op) ==
    LET oldparent == ResolveFullWidgetPath(d, op.oldparentpath)
    IN IF op.oldparentpath = UnsetPath \/ oldparent = NoneId
       THEN Ret(FALSE, d, op)
       ELSE Ret(TRUE, AddChild(d, oldparent, op.oldwidget, op.oldindex), op)

WidgetDeleteUndo(d, op) ==
    LET oldparent == ResolveFullWidgetPath(d, op.oldparentpath)
        d1 == [d EXCEPT !.wparent[op.oldwidget] = oldparent]
    IN IF op.oldparentpath = UnsetPath \/ oldparent = NoneId
       THEN Ret(FALSE, d, op)
       ELSE Ret(TRUE, AddChild(d1, oldparent, op.oldwidget, op.oldindex), op)

(* OperationWidgetsDelete *)
OpWidgetsDelete(wpaths) ==
    [kind |-> "WidgetsDelete", widgetpaths |-> wpaths,
     oldwidgets |-> UnsetList, oldparentpaths |-> <<>>, oldindexes |-> <<>>]

\* x goes after the elements that are not longer than it
RECURSIVE InsertByLen(_, _)
InsertByLen(s, x) ==
    IF s = <<>> THEN <<x>>
    ELSE IF Len(Head(s)) <= Len(x) THEN <<Head(s)>> \o InsertByLen(Tail(s), x)
    ELSE <<x>> \o s

\* list.sort(key=len): a stable sort by length
RECURSIVE SortByLen(_)
SortByLen(s) ==
    IF s = <<>> THEN <<>> ELSE InsertByLen(SortByLen(Front(s)), Last(s))

\* s[:n]
Slice(s, n) == SubSeq(s, 1, IF n > Len(s) THEN Len(s) ELSE n)

RECURSIVE PruneFrom_prefix(_, _)
PruneFrom_prefix(widgetpaths, i) ==
    IF i >= Len(widgetpaths) THEN widgetpaths
    ELSE LET wp == widgetpaths[i + 1]
         IN IF \E j \in 1..i :
                  Slice(wp, Len(widgetpaths[j])) = widgetpaths[j]
            THEN PruneFrom_prefix(RemoveAt(widgetpaths, i + 1), i)
            ELSE PruneFrom_prefix(widgetpaths, i + 1)

PruneFrom_none(widgetpaths, i) == widgetpaths

\* the while loop of do: widgetpaths[i] goes when an earlier path followed
\* by '/' starts it (i is the 0-based index of the loop)
RECURSIVE PruneFrom(_, _)
PruneFrom(widgetpaths, i) ==
    IF i >= Len(widgetpaths) THEN widgetpaths
    ELSE LET wp == widgetpaths[i + 1]
         IN IF \E j \in 1..i :
                  Slice(wp, Len(widgetpaths[j]) + 1) = widgetpaths[j] \o <<"/">>
            THEN PruneFrom(RemoveAt(widgetpaths, i + 1), i)
            ELSE PruneFrom(widgetpaths, i + 1)

Prune(widgetpaths) == PruneFrom(SortByLen(widgetpaths), 0)

\* the for loop of do: delete each remaining widget, keeping its details
RECURSIVE DeleteFrom(_, _, _, _)
DeleteFrom(d, op, paths, i) ==
    IF i > Len(paths) THEN Ret(TRUE, d, op)
    ELSE LET w == ResolveFullWidgetPath(d, paths[i])
             oldparent == d.wparent[w]
             op1 == [op EXCEPT !.oldwidgets = Append(@, w)]
             op2 == [op1 EXCEPT
                       !.oldparentpaths = Append(@, WidgetPath(d, oldparent)),
                       !.oldindexes =
                           Append(@, IndexOf(d.children[oldparent], w))]
         IN IF w = NoneId THEN Ret(FALSE, d, op)
            ELSE IF oldparent = NoneId THEN Ret(FALSE, d, op1)
            ELSE DeleteFrom(RemoveChild(d, oldparent, d.wname[w]), op2,
                            paths, i + 1)

WidgetsDeleteDo(d, op) ==
    DeleteFrom(d, [op EXCEPT !.oldwidgets = <<>>, !.oldparentpaths = <<>>,
                             !.oldindexes = <<>>],
               Prune(op.widgetpaths), 1)

\* the loop of undo, from the last deleted widget (i, 1-based) to the first
RECURSIVE ReinsertFrom(_, _, _)
ReinsertFrom(d, op, i) ==
    IF i < 1 THEN Ret(TRUE, d, op)
    ELSE LET oldparent == ResolveFullWidgetPath(d, op.oldparentpaths[i])
         IN IF oldparent = NoneId THEN Ret(FALSE, d, op)
            ELSE ReinsertFrom(
                     Log(AddChild(d, oldparent, op.oldwidgets[i],
                                  op.oldindexes[i]),
                         <<"reinsert", op.oldwidgets[i], i>>), op, i - 1)

WidgetsDeleteUndo_forward(d, op) ==
    IF op.oldwidgets = UnsetList THEN Ret(FALSE, d, op)
    ELSE ReinsertFrom(d, [op EXCEPT !.oldwidgets = Reverse(@),
                                    !.oldparentpaths = Reverse(@),
                                    !.oldindexes = Reverse(@)],
                      Len(op.oldwidgets))

WidgetsDeleteUndo(d, op) ==
    IF op.oldwidgets = UnsetList THEN Ret(FALSE, d, op)
    ELSE ReinsertFrom(d, op, Len(op.oldwidgets))


\* widget.moveChild(w, direction): w changes place with the sibling in that
\* direction and True is returned; at the end of the list nothing moves and
\* False is returned
MoveChild(d, parent, w, direction) ==
    LET c == d.children[parent]
        oldindex == IndexOf(c, w) + 1
        newindex == oldindex + direction
    IN IF newindex < 1 \/ newindex > Len(c) THEN [moved |-> FALSE, doc |-> d]
       ELSE [moved |-> TRUE,
             doc |-> Log([d EXCEPT !.children[parent] =
                              [c EXCEPT ![oldindex] = c[newindex],
                                        ![newindex] = c[oldindex]]],
                         <<"moveChild", w, direction>>)]

(* OperationWidgetMoveUpDown *)
OpWidgetMoveUpDown(wpath, direction) ==
    [kind |-> "WidgetMoveUpDown", widgetpath |-> wpath,
     direction |-> direction, suceeded |-> Unset, newpath |-> UnsetPath]

\* True and False, as the operation keeps them
Bool(b) == IF b THEN "True" ELSE "False"

WidgetMoveUpDownDo(d, op) ==
    LET widget == ResolveFullWidgetPath(d, op.widgetpath)
        parent == d.wparent[widget]
        r == MoveChild(d, parent, widget, op.direction)
    IN IF widget = NoneId \/ parent = NoneId THEN Ret(FALSE, d, op)
       ELSE Ret(TRUE, r.doc, [op EXCEPT !.suceeded = Bool(r.moved),
                                        !.newpath = WidgetPath(r.doc, widget)])

WidgetMoveUpDownUndo_always(d, op) ==
    LET widget == ResolveFullWidgetPath(d, op.newpath)
        parent == d.wparent[widget]
    IN IF op.suceeded = Unset \/ widget = NoneId \/ parent = NoneId
       THEN Ret(FALSE, d, op)
       ELSE Ret(TRUE, MoveChild(d, parent, widget, 0 - op.direction).doc, op)

WidgetMoveUpDownUndo(d, op) ==
    LET widget == ResolveFullWidgetPath(d, op.newpath)
        parent == d.wparent[widget]
    IN IF op.suceeded = Unset THEN Ret(FALSE, d, op)
       ELSE IF op.suceeded = Bool(TRUE)
       THEN IF widget = NoneId \/ parent = NoneId THEN Ret(FALSE, d, op)
            ELSE Ret(TRUE, MoveChild(d, parent, widget, 0 - op.direction).doc,
                     op)
       ELSE Ret(TRUE, d, op)

\* widget.chooseName(): the type name with the first number that makes a
\* name no child of the parent has
Digits == <<"1", "2", "3", "4", "5", "6", "7", "8">>
Numbered(typename, i) == <<typename, Digits[i]>>
ChooseName(d, w) ==
    LET names == Range(ChildNames(d, d.wparent[w]))
        free == {i \in 1..Len(Digits) : Numbered(d.wtype[w], i) \notin names}
    IN Numbered(d.wtype[w], CHOOSE i \in free : \A k \in free : i <= k)

(* OperationWidgetMove *)
UnsetName == <<"Unset">>

OpWidgetMove(oldchildpath, newparentpath, newindex) ==
    [kind |-> "WidgetMove", oldchildpath |-> oldchildpath,
     newparentpath |-> newparentpath, newindex |-> newindex,
     oldchildindex |-> UnsetIndex, oldparentpath |-> UnsetPath,
     oldname |-> UnsetName, movemode |-> Unset, newchildpath |-> UnsetPath]

\* the branch of do that moves within the same parent
MoveSameParent_noadjust(d, op, child, oldparent) ==
    LET d1 == [d EXCEPT !.children[oldparent] =
                  InsertAt(RemoveAt(@, op.oldchildindex + 1), op.newindex, child)]
    IN Ret(TRUE, d1, [op EXCEPT !.movemode = "sameparent",
                                !.newchildpath = WidgetPath(d1, child)])

MoveSameParent(d, op, child, oldparent) ==
    LET newindex == IF op.newindex > op.oldchildindex THEN op.newindex - 1
                    ELSE op.newindex
        d1 == [d EXCEPT !.children[oldparent] =
                  InsertAt(RemoveAt(@, op.oldchildindex + 1), newindex, child)]
    IN Ret(TRUE, d1, [op EXCEPT !.movemode = "sameparent",
                                !.newindex = newindex,
                                !.newchildpath = WidgetPath(d1, child)])

\* the branch of do that moves to a different parent
MoveDifferentParent_norecord(d, op, child, oldparent, newparent) ==
    LET d1 == [d EXCEPT !.children[oldparent] =
                  RemoveAt(@, op.oldchildindex + 1)]
        childnames == ChildNames(d1, newparent)
        d2 == [d1 EXCEPT !.children[newparent] = InsertAt(@, op.newindex, child),
                         !.wparent[child] = newparent]
        collides == d2.wname[child] \in Range(childnames)
        d3 == IF collides
              THEN [d2 EXCEPT !.wname[child] = ChooseName(d2, child)] ELSE d2
    IN Ret(TRUE, d3, [op EXCEPT !.movemode = "differentparent",
                                !.newchildpath = WidgetPath(d3, child)])

MoveDifferentParent(d, op, child, oldparent, newparent) ==
    LET d1 == [d EXCEPT !.children[oldparent] =
                  RemoveAt(@, op.oldchildindex + 1)]
        childnames == ChildNames(d1, newparent)
        d2 == [d1 EXCEPT !.children[newparent] = InsertAt(@, op.newindex, child),
                         !.wparent[child] = newparent]
        collides == d2.wname[child] \in Range(childnames)
        d3 == IF collides
              THEN [d2 EXCEPT !.wname[child] = ChooseName(d2, child)] ELSE d2
    IN Ret(TRUE, d3, [op EXCEPT !.movemode = "differentparent",
                                !.oldname = IF collides THEN d2.wname[child]
                                            ELSE NoneName,
                                !.newchildpath = WidgetPath(d3, child)])

WidgetMoveDo(d, op) ==
    LET child == ResolveFullWidgetPath(d, op.oldchildpath)
        oldparent == d.wparent[child]
        newparent == ResolveFullWidgetPath(d, op.newparentpath)
        op1 == [op EXCEPT !.oldchildindex = IndexOf(d.children[oldparent], child),
                          !.oldparentpath = WidgetPath(d, oldparent),
                          !.oldname = NoneName,
                          !.newindex = IF op.newindex < 0
                                       THEN Len(d.children[newparent])
                                       ELSE op.newindex]
    IN IF child = NoneId \/ newparent = NoneId \/ oldparent = NoneId
       THEN Ret(FALSE, d, op)
       ELSE IF oldparent = newparent
       THEN MoveSameParent(d, op1, child, oldparent)
       ELSE MoveDifferentParent(d, op1, child, oldparent, newparent)

WidgetMoveUndo_noremove(d, op) ==
    LET child == ResolveFullWidgetPath(d, op.newchildpath)
        oldparent == ResolveFullWidgetPath(d, op.oldparentpath)
    IN IF op.newchildpath = UnsetPath \/ child = NoneId \/ oldparent = NoneId
       THEN Ret(FALSE, d, op)
       ELSE Ret(TRUE, [d EXCEPT !.children[oldparent] =
                                    InsertAt(@, op.oldchildindex, child),
                                !.wparent[child] = oldparent], op)

WidgetMoveUndo(d, op) ==
    LET newparent == ResolveFullWidgetPath(d, op.newparentpath)
        child == ResolveFullWidgetPath(d, op.newchildpath)
        oldparent == ResolveFullWidgetPath(d, op.oldparentpath)
        d1 == [d EXCEPT !.children[newparent] = RemoveAt(@, op.newindex + 1)]
        d2 == [d1 EXCEPT !.children[oldparent] =
                             InsertAt(@, op.oldchildindex, child),
                         !.wparent[child] = oldparent]
    IN IF op.newchildpath = UnsetPath THEN Ret(FALSE, d, op)
       ELSE IF newparent = NoneId \/ child = NoneId \/ oldparent = NoneId
       THEN Ret(FALSE, d, op)
       ELSE IF op.newindex >= Len(d.children[newparent]) THEN Ret(FALSE, d, op)
       ELSE Ret(TRUE, IF op.oldname # NoneName
                      THEN [d2 EXCEPT !.wname[child] = op.oldname] ELSE d2, op)
(* OperationWidgetRename *)

\* widget.rename(name): the name must be new among the siblings
RenameWidget(d, w, name) ==
    IF d.wparent[w] = NoneId
          \/ name \in Range(ChildNames(d, d.wparent[w]))
    THEN [ok |-> FALSE, doc |-> d]
    ELSE [ok |-> TRUE, doc |-> [d EXCEPT !.wname[w] = name]]

OpWidgetRename(widgetpath, newname) ==
    [kind |-> "WidgetRename", widgetpath |-> widgetpath, newname |-> newname,
     oldname |-> UnsetName, newpath |-> UnsetPath]

\* the rest of do() once the widget is found and the rename r is tried
WidgetRenamed(d, op, widget, r) ==
    IF ~r.ok THEN Ret(FALSE, d, [op EXCEPT !.oldname = d.wname[widget]])
    ELSE Ret(TRUE, r.doc, [op EXCEPT !.oldname = d.wname[widget],
                                     !.newpath = WidgetPath(r.doc, widget)])

WidgetRenameAt(d, op, widget) ==
    IF widget = NoneId THEN Ret(FALSE, d, op)
    ELSE WidgetRenamed(d, op, widget, RenameWidget(d, widget, op.newname))

WidgetRenameDo(d, op) ==
    WidgetRenameAt(d, op, ResolveFullWidgetPath(d, op.widgetpath))

WidgetRenamedBack(op, r) == Ret(r.ok, r.doc, op)

WidgetRenameBackAt(d, op, widget) ==
    IF op.newpath = UnsetPath \/ widget = NoneId THEN Ret(FALSE, d, op)
    ELSE WidgetRenamedBack(op, RenameWidget(d, widget, op.oldname))

WidgetRenameUndo(d, op) ==
    WidgetRenameBackAt(d, op, ResolveFullWidgetPath(d, op.newpath))

(* OperationWidgetAdd *)

\* a widget object that has not been constructed yet
Unmade(d) == {w \in WIds : d.wtype[w] = "none"}

\* widgetfactory.thefactory.makeWidget(type, parent, name=, index=): the new
\* widget gets the name asked for, or a chosen one when none is asked for or
\* a child of the parent has it, and goes into the parent's children at
\* index, or at the end when index is negative
MakeWidgetNamed(d1, w, parent, name, index) ==
    [doc |-> AddChild([d1 EXCEPT !.wname[w] = name], parent, w,
                      IF index < 0 THEN Len(d1.children[parent]) ELSE index),
     w |-> w]

MakeWidgetIn(d, d1, w, parent, name, index) ==
    MakeWidgetNamed(d1, w, parent,
                    IF name = NoneName \/ name \in Range(ChildNames(d, parent))
                    THEN ChooseName(d1, w) ELSE name,
                    index)

MakeWidgetAs(d, w, type, parent, name, index) ==
    MakeWidgetIn(d, [d EXCEPT !.wtype[w] = type, !.wparent[w] = parent,
                              !.children[w] = <<>>],
                 w, parent, name, index)

MakeWidget(d, type, parent, name, index) ==
    MakeWidgetAs(d, CHOOSE v \in Unmade(d) : \A u \in Unmade(d) : v <= u,
                 type, parent, name, index)

OpWidgetAdd(parentpath, type, name, index) ==
    [kind |-> "WidgetAdd", parentpath |-> parentpath, type |-> type,
     name |-> name, index |-> index, createdname |-> UnsetName]

WidgetAdded(op, r) ==
    Ret(TRUE, r.doc, [op EXCEPT !.createdname = r.doc.wname[r.w]])

WidgetAddAt(d, op, parent) ==
    IF parent = NoneId \/ Unmade(d) = {} THEN Ret(FALSE, d, op)
    ELSE WidgetAdded(op, MakeWidget(d, op.type, parent, op.name, op.index))

WidgetAddDo(d, op) ==
    WidgetAddAt(d, op, ResolveFullWidgetPath(d, op.parentpath))

WidgetAddUndoAt(d, op, parent) ==
    IF op.createdname = UnsetName \/ parent = NoneId THEN Ret(FALSE, d, op)
    ELSE IF op.createdname \notin Range(ChildNames(d, parent))
    THEN Ret(FALSE, d, op)
    ELSE Ret(TRUE, RemoveChild(d, parent, op.createdname), op)

WidgetAddUndo(d, op) ==
    WidgetAddUndoAt(d, op, ResolveFullWidgetPath(d, op.parentpath))

----------------------------------------------------------------------------
(* History of the document: applyOperation, batchHistory *)

\* a reference to an OperationMultiple object; its list of operations is
\* d.ops[id], so that the history batch and the caller share the object
CompositeKinds == {"Multiple", "LoadStyleSheet", "LoadCustom", "ToolsPlugin"}
IsComposite(op) == op.kind \in CompositeKinds

\* document.batchHistory(batch): push the batch, or pop when batch is None
BatchHistory(d, batch) ==
    IF batch # NoneId
    THEN Log([d EXCEPT !.historybatch = Append(d.historybatch, batch)],
             <<"open", batch, 0>>)
    ELSE Log([d EXCEPT !.historybatch = Front(d.historybatch)],
             <<"close", Last(d.historybatch), 0>>)

AddOperation_front(d, id, op) == [d EXCEPT !.ops[id] = <<op>> \o d.ops[id]]

(* OperationMultiple.addOperation *)
AddOperation(d, id, op) == [d EXCEPT !.ops[id] = Append(d.ops[id], op)]

RECURSIVE Do(_, _), Undo(_, _)
RECURSIVE MultipleDoFrom(_, _, _), MultipleUndoFrom(_, _, _)
RECURSIVE RunCommands(_, _, _)

\* document.applyOperation(operation), after operation.do has returned r:
\* the operation goes to the open batch, or else on the undo stack
Record(r) ==
    IF ~r.ok THEN r
    ELSE LET d1 == IF r.doc.historybatch # <<>>
                   THEN AddOperation(r.doc, Last(r.doc.historybatch), r.op)
                   ELSE [r.doc EXCEPT
                           !.historyundo = Append(r.doc.historyundo, r.op)]
         IN Ret(TRUE, [d1 EXCEPT !.historyredo = <<>>], r.op)

\* document.applyOperation(operation)
ApplyOperation(d, op) == Record(Do(d, op))

(* OperationMultiple.do: the children in list order, stopping at a raise *)
MultipleDoFrom(d, id, i) ==
    IF i > Len(d.ops[id]) THEN Ret(TRUE, d, None)
    ELSE LET r == Do(Log(d, <<"do", id, i>>), d.ops[id][i])
             d1 == [r.doc EXCEPT !.ops[id][i] = r.op]
         IN IF ~r.ok THEN Ret(FALSE, d1, None)
            ELSE MultipleDoFrom(d1, id, i + 1)

MultipleDo(d, op) ==
    LET r == MultipleDoFrom(d, op.id, 1) IN Ret(r.ok, r.doc, op)

RECURSIVE MultipleUndoUpFrom(_, _, _)
MultipleUndoUpFrom(d, id, i) ==
    IF i > Len(d.ops[id]) THEN Ret(TRUE, d, None)
    ELSE LET r == Undo(Log(d, <<"undo", id, i>>), d.ops[id][i])
         IN IF ~r.ok THEN Ret(FALSE, r.doc, None)
            ELSE MultipleUndoUpFrom(r.doc, id, i + 1)

MultipleUndoFrom_listorder(d, id, i) == MultipleUndoUpFrom(d, id, 1)

(* OperationMultiple.undo: all the children, last one first *)
MultipleUndoFrom(d, id, i) ==
    IF i < 1 THEN Ret(TRUE, d, None)
    ELSE LET child == d.ops[id][i]
         IN IF IsComposite(child) /\ child.id = id
            THEN Ret(FALSE, Log(d, <<"undo", id, i>>), None)
            ELSE LET r == Undo(Log(d, <<"undo", id, i>>), child)
                 IN IF ~r.ok THEN Ret(FALSE, r.doc, None)
                    ELSE MultipleUndoFrom(r.doc, id, i - 1)

MultipleUndo(d, op) ==
    LET r == MultipleUndoFrom(d, op.id, Len(d.ops[op.id]))
    IN Ret(r.ok, r.doc, op)

\* what the external interpreter or plugin does with the document: it
\* issues cmds[i..] through applyOperation, and raises by itself after
\* raiseafter commands (NoRaise: never); a command that raises ends the run
NoRaise == 0 - 1

RunCommands(d, run, i) ==
    IF run.raiseafter # NoRaise /\ i > run.raiseafter THEN Ret(FALSE, d, None)
    ELSE IF i > Len(run.cmds) THEN Ret(TRUE, d, None)
    ELSE LET r == ApplyOperation(d, run.cmds[i])
         IN IF ~r.ok THEN Ret(FALSE, r.doc, None)
            ELSE RunCommands(r.doc, run, i + 1)

(* OperationLoadStyleSheet.do (OperationLoadCustom inherits it) *)
LoadStyleSheetDo_noclose(d, op) ==
    LET d1 == BatchHistory(d, op.id)
        r == RunCommands(d1, op.run, 1)
    IN Ret(r.ok, r.doc, op)

LoadStyleSheetDo(d, op) ==
    LET d1 == BatchHistory(d, op.id)
        r == RunCommands(d1, op.run, 1)
    IN IF ~r.ok THEN Ret(FALSE, BatchHistory(r.doc, NoneId), op)
       ELSE Ret(TRUE, r.doc, op)

(* OperationToolsPlugin.do *)
ToolsPluginDo(d, op) ==
    LET d1 == BatchHistory(d, op.id)
        r == RunCommands(d1, op.run, 1)
    IN IF ~r.ok THEN Ret(FALSE, BatchHistory(r.doc, NoneId), op)
       ELSE Ret(TRUE, BatchHistory(r.doc, NoneId), op)

(* OperationSetCustom *)
UnsetCustoms == <<<<Unset>>>>

\* document.updateEvalContext(): the context is rebuilt from the customs
UpdateEvalContext(d) ==
    Log([d EXCEPT !.evalcontext = d.customs], <<"updateEvalContext", 0, 0>>)

OpSetCustom(vals) ==
    [kind |-> "SetCustom", customvals |-> vals, oldval |-> UnsetCustoms]

SetCustomDo_extend(d, op) ==
    Ret(TRUE, UpdateEvalContext([d EXCEPT !.customs = @ \o op.customvals]),
        [op EXCEPT !.oldval = d.customs])

SetCustomDo(d, op) ==
    Ret(TRUE, UpdateEvalContext([d EXCEPT !.customs = op.customvals]),
        [op EXCEPT !.oldval = d.customs])

SetCustomUndo(d, op) ==
    IF op.oldval = UnsetCustoms THEN Ret(FALSE, d, op)
    ELSE Ret(TRUE, UpdateEvalContext([d EXCEPT !.customs = op.oldval]), op)

(* OperationDatasetUnlinkByFile and OperationDatasetDeleteByFile *)

FileLinks == {"f", "g", "h"}

\* linked.filename: f and g are two links to the same file
Filename(link) == IF link = "h" THEN "b.dat" ELSE "a.dat"

Filenames == {"a.dat", "b.dat", "c.dat"}

\* document.data.items()
DataItems(d) == SelectSeq(<<"x", "y", "z">>, LAMBDA n : HasData(d, n))

UnsetLinks == <<UnsetPair>>

UnsetOld == <<<<Unset, UnsetId>>>>

OpDatasetUnlinkByFile(filename) ==
    [kind |-> "DatasetUnlinkByFile", filename |-> filename,
     oldlinks |-> UnsetLinks]

UnlinkByFileFrom_all(d, names, filename, oldlinks) ==
    [doc |-> [d EXCEPT !.obj = [i \in DOMAIN d.obj |->
                                  [d.obj[i] EXCEPT !.linked = None]]],
     oldlinks |-> oldlinks]

RECURSIVE UnlinkByFileFrom(_, _, _, _)
UnlinkByFileFrom(d, names, filename, oldlinks) ==
    IF names = <<>> THEN [doc |-> d, oldlinks |-> oldlinks]
    ELSE LET name == Head(names)
             ds == d.data[name]
             linked == d.obj[ds].linked
         IN IF linked # None /\ Filename(linked) = filename
            THEN UnlinkByFileFrom([d EXCEPT !.obj[ds].linked = None],
                                  Tail(names), filename,
                                  DictSet(oldlinks, name, linked))
            ELSE UnlinkByFileFrom(d, Tail(names), filename, oldlinks)

DatasetUnlinkByFileDo(d, op) ==
    LET r == UnlinkByFileFrom(d, DataItems(d), op.filename, <<>>)
    IN Ret(TRUE, r.doc, [op EXCEPT !.oldlinks = r.oldlinks])

\* a dataset that is no longer in the document is passed over (KeyError)
RECURSIVE RelinkFrom(_, _)
RelinkFrom(d, oldlinks) ==
    IF oldlinks = <<>> THEN d
    ELSE LET name == Head(oldlinks)[1]
             link == Head(oldlinks)[2]
         IN RelinkFrom(IF HasData(d, name)
                       THEN [d EXCEPT !.obj[d.data[name]].linked = link]
                       ELSE d,
                       Tail(oldlinks))

DatasetUnlinkByFileUndo(d, op) ==
    IF op.oldlinks = UnsetLinks THEN Ret(FALSE, d, op)
    ELSE Ret(TRUE, RelinkFrom(d, op.oldlinks), op)

OpDatasetDeleteByFile(filename) ==
    [kind |-> "DatasetDeleteByFile", filename |-> filename,
     olddatasets |-> UnsetOld]

RECURSIVE DeleteByFileFrom(_, _, _, _)
DeleteByFileFrom(d, names, filename, olddatasets) ==
    IF names = <<>> THEN [doc |-> d, olddatasets |-> olddatasets]
    ELSE LET name == Head(names)
             ds == d.data[name]
             linked == d.obj[ds].linked
         IN IF linked # None /\ Filename(linked) = filename
            THEN DeleteByFileFrom(DeleteData(d, name), Tail(names), filename,
                                  DictSet(olddatasets, name, ds))
            ELSE DeleteByFileFrom(d, Tail(names), filename, olddatasets)

DatasetDeleteByFileDo(d, op) ==
    LET r == DeleteByFileFrom(d, DataItems(d), op.filename, <<>>)
    IN Ret(TRUE, r.doc, [op EXCEPT !.olddatasets = r.olddatasets])

RECURSIVE SetDataFrom(_, _)
SetDataFrom(d, olddatasets) ==
    IF olddatasets = <<>> THEN d
    ELSE SetDataFrom(SetData(d, Head(olddatasets)[1], Head(olddatasets)[2]),
                     Tail(olddatasets))

DatasetDeleteByFileUndo(d, op) ==
    IF op.olddatasets = UnsetOld THEN Ret(FALSE, d, op)
    ELSE Ret(TRUE, SetDataFrom(d, op.olddatasets), op)

(* OperationDatasetPlugin *)

\* plugin: the names of the datasets it makes, and whether evaluating it
\* fails; names: the renames the caller asks for, old name -> new name
OpDatasetPlugin(plugin, names) ==
    [kind |-> "DatasetPlugin", plugin |-> plugin, names |-> names,
     datasetnames |-> UnsetNames, olddata |-> UnsetOld, manager |-> UnsetList]

\* plugins.DatasetPluginManager(plugin, document, fields): one new dataset
\* object for each name of the plugin (manager.veuszdatasets)
RECURSIVE NewManager(_, _)
NewManager(d, n) ==
    IF n = 0 THEN [doc |-> d, veuszdatasets |-> <<>>]
    ELSE LET r == NewManager(d, n - 1)
             d1 == NewObj(r.doc, DsObject(Cols(<<7>>, NoneCol, NoneCol, NoneCol),
                                          1, "plugin"))
         IN [doc |-> d1, veuszdatasets |-> Append(r.veuszdatasets, d1.nobj)]

\* the loop that renames
Renamed(names, renames) ==
    [i \in 1..Len(names) |-> IF names[i] \in DictKeys(renames)
                             THEN DictGet(renames, names[i]) ELSE names[i]]

PreserveFrom_none(d, names, olddata) == olddata

\* the loop that preserves the old datasets
RECURSIVE PreserveFrom(_, _, _)
PreserveFrom(d, names, olddata) ==
    IF names = <<>> THEN olddata
    ELSE PreserveFrom(d, Tail(names),
                      IF Head(names) # None /\ HasData(d, Head(names))
                      THEN DictSet(olddata, Head(names), d.data[Head(names)])
                      ELSE olddata)

\* the loop that adds the new datasets
RECURSIVE InstallFrom(_, _, _)
InstallFrom(d, names, veuszdatasets) ==
    IF names = <<>> \/ veuszdatasets = <<>> THEN d
    ELSE InstallFrom(IF Head(names) # None
                     THEN SetData(d, Head(names), Head(veuszdatasets)) ELSE d,
                     Tail(names), Tail(veuszdatasets))

DatasetPluginDo(d, op) ==
    LET manager == NewManager(d, Len(op.plugin.datasetnames))
        names == Renamed(op.plugin.datasetnames, op.names)
        olddata == PreserveFrom(d, names, <<>>)
    IN Ret(TRUE, InstallFrom(manager.doc, names, manager.veuszdatasets),
           [op EXCEPT !.datasetnames = names, !.olddata = olddata,
                      !.manager = manager.veuszdatasets])

\* manager.update(raiseerrors=True): one evaluation of the plugin
ManagerUpdate(d, op) ==
    IF op.plugin.fails
    THEN Validated(FALSE, "DatasetPluginException", FALSE,
                   Log(d, <<"update", 0, 0>>))
    ELSE Validated(TRUE, None, TRUE, Log(d, <<"update", 0, 0>>))

\* OperationDatasetPlugin.validate: self.manager is an attribute that do
\* assigns
DatasetPluginValidate(d, op) ==
    IF op.manager = UnsetList
    THEN Validated(FALSE, "AttributeError", FALSE, d)
    ELSE ManagerUpdate(d, op)

\* the loop of undo that deletes the datasets which were created
RECURSIVE PluginDeleteFrom(_, _)
PluginDeleteFrom(d, names) ==
    IF names = <<>> THEN [ok |-> TRUE, doc |-> d]
    ELSE IF Head(names) = None THEN PluginDeleteFrom(d, Tail(names))
    ELSE IF ~HasData(d, Head(names)) THEN [ok |-> FALSE, doc |-> d]
    ELSE PluginDeleteFrom(DeleteData(d, Head(names)), Tail(names))

\* the loop of undo that puts back the old datasets
RECURSIVE PluginRestoreFrom(_, _)
PluginRestoreFrom(d, olddata) ==
    IF olddata = <<>> THEN d
    ELSE PluginRestoreFrom(SetData(d, Head(olddata)[1], Head(olddata)[2]),
                           Tail(olddata))

DatasetPluginUndo(d, op) ==
    IF op.datasetnames = UnsetNames THEN Ret(FALSE, d, op)
    ELSE LET r == PluginDeleteFrom(d, op.datasetnames)
         IN IF ~r.ok THEN Ret(FALSE, r.doc, op)
            ELSE Ret(TRUE, PluginRestoreFrom(r.doc, op.olddata), op)

Do(d, op) ==
    CASE op.kind = "DatasetSet" -> DatasetSetDo(d, op)
      [] op.kind = "DatasetDelete" -> DatasetDeleteDo(d, op)
      [] op.kind = "DatasetRename" -> DatasetRenameDo(d, op)
      [] op.kind = "DatasetDuplicate" -> DatasetDuplicateDo(d, op)
      [] op.kind = "DatasetUnlinkFile" -> DatasetUnlinkFileDo(d, op)
      [] op.kind = "DatasetUnlinkRelation" -> DatasetUnlinkRelationDo(d, op)
      [] op.kind = "DatasetAddColumn" -> DatasetAddColumnDo(d, op)
      [] op.kind = "DatasetDeleteRow" -> DatasetDeleteRowDo(d, op)
      [] op.kind = "DatasetInsertRow" -> DatasetInsertRowDo(d, op)
      [] op.kind = "DataTag" -> DataTagDo(d, op)
      [] op.kind = "DataUntag" -> DataUntagDo(d, op)
      [] op.kind = "DatasetCreateRange" -> DatasetCreateRangeDo(d, op)
      [] op.kind = "DatasetCreateParameteric" ->
             DatasetCreateParametericDo(d, op)
      [] op.kind = "DatasetCreateExpression" ->
             DatasetCreateExpressionDo(d, op)
      [] op.kind \in TwoDKinds -> Dataset2DBaseDo(d, op)
      [] op.kind = "SettingSet" -> SettingSetDo(d, op)
      [] op.kind = "SettingPropagate" -> SettingPropagateDo(d, op)
      [] op.kind = "WidgetDelete" -> WidgetDeleteDo(d, op)
      [] op.kind = "WidgetsDelete" -> WidgetsDeleteDo(d, op)
      [] op.kind = "WidgetMoveUpDown" -> WidgetMoveUpDownDo(d, op)
      [] op.kind = "WidgetMove" -> WidgetMoveDo(d, op)
      [] op.kind = "Multiple" -> MultipleDo(d, op)
      [] op.kind \in {"LoadStyleSheet", "LoadCustom"} ->
             LoadStyleSheetDo(d, op)
      [] op.kind = "ToolsPlugin" -> ToolsPluginDo(d, op)
      [] op.kind = "DatasetPlugin" -> DatasetPluginDo(d, op)
      [] op.kind = "SetCustom" -> SetCustomDo(d, op)
      [] op.kind = "WidgetRename" -> WidgetRenameDo(d, op)
      [] op.kind = "WidgetAdd" -> WidgetAddDo(d, op)
      [] op.kind = "DatasetUnlinkByFile" -> DatasetUnlinkByFileDo(d, op)
      [] op.kind = "DatasetDeleteByFile" -> DatasetDeleteByFileDo(d, op)

Undo(d, op) ==
    CASE op.kind = "DatasetSet" -> DatasetSetUndo(d, op)
      [] op.kind = "DatasetDelete" -> DatasetDeleteUndo(d, op)
      [] op.kind = "DatasetRename" -> DatasetRenameUndo(d, op)
      [] op.kind = "DatasetDuplicate" -> DatasetDuplicateUndo(d, op)
      [] op.kind = "DatasetUnlinkFile" -> DatasetUnlinkFileUndo(d, op)
      [] op.kind = "DatasetUnlinkRelation" ->
             DatasetUnlinkRelationUndo(d, op)
      [] op.kind = "DatasetAddColumn" -> DatasetAddColumnUndo(d, op)
      [] op.kind = "DatasetDeleteRow" -> DatasetDeleteRowUndo(d, op)
      [] op.kind = "DatasetInsertRow" -> DatasetInsertRowUndo(d, op)
      [] op.kind = "DataTag" -> DataTagUndo(d, op)
      [] op.kind = "DataUntag" -> DataUntagUndo(d, op)
      [] op.kind \in {"DatasetCreateRange", "DatasetCreateParameteric",
                      "DatasetCreateExpression"} -> DatasetCreateUndo(d, op)
      [] op.kind \in TwoDKinds -> Dataset2DBaseUndo(d, op)
      [] op.kind = "SettingSet" -> SettingSetUndo(d, op)
      [] op.kind = "SettingPropagate" -> SettingPropagateUndo(d, op)
      [] op.kind = "WidgetDelete" -> WidgetDeleteUndo(d, op)
      [] op.kind = "WidgetsDelete" -> WidgetsDeleteUndo(d, op)
      [] op.kind = "WidgetMoveUpDown" -> WidgetMoveUpDownUndo(d, op)
      [] op.kind = "WidgetMove" -> WidgetMoveUndo(d, op)
      [] op.kind \in CompositeKinds -> MultipleUndo(d, op)
      [] op.kind = "DatasetPlugin" -> DatasetPluginUndo(d, op)
      [] op.kind = "SetCustom" -> SetCustomUndo(d, op)
      [] op.kind = "WidgetRename" -> WidgetRenameUndo(d, op)
      [] op.kind = "WidgetAdd" -> WidgetAddUndo(d, op)
      [] op.kind = "DatasetUnlinkByFile" -> DatasetUnlinkByFileUndo(d, op)
      [] op.kind = "DatasetDeleteByFile" -> DatasetDeleteByFileUndo(d, op)

\* document.undoOperation(): pop the last operation, undo it, keep it for redo
UndoOperation(d) ==
    LET op == Last(d.historyundo)
        d1 == [d EXCEPT !.historyundo = Front(d.historyundo)]
        r == Undo(d1, op)
    IN IF ~r.ok THEN r
       ELSE Ret(TRUE, [r.doc EXCEPT !.historyredo = Append(@, op)], op)

\* document.redoOperation(): the operation on top of the redo stack is done
\* again and recorded, and the redo stack keeps what is below it
RecordRedo(r) ==
    IF ~r.ok THEN r
    ELSE IF r.doc.historybatch # <<>>
    THEN Ret(TRUE, AddOperation(r.doc, Last(r.doc.historybatch), r.op), r.op)
    ELSE Ret(TRUE, [r.doc EXCEPT !.historyundo = Append(@, r.op)], r.op)

RedoOperation(d) ==
    RecordRedo(Do([d EXCEPT !.historyredo = Front(d.historyredo)],
                  Last(d.historyredo)))

----------------------------------------------------------------------------
(* What an observer compares: the dataset map with the objects it holds *)

DictAsSet(dict) == Range(dict)

NoDataset == [id |-> NoneId]

NoObj == DsObject(Cols(NoneCol, NoneCol, NoneCol, NoneCol), 0, None)

DatasetView(d, ds) ==
    [id |-> ds, cols |-> d.obj[ds].cols, dims |-> d.obj[ds].dims,
     live |-> d.obj[ds].live, tags |-> d.obj[ds].tags,
     linked |-> d.obj[ds].linked,
     data2d |-> d.obj[ds].data2d,
     renames |-> IF d.obj[ds].linked = None THEN {}
                 ELSE DictAsSet(d.renames[d.obj[ds].linked])]

DataView(d) ==
    [n \in DsNames |-> IF d.data[n] = NoneId THEN NoDataset
                       ELSE DatasetView(d, d.data[n])]

\* the widgets of the tree: the base widget and all below it
RECURSIVE Below(_, _)
Below(d, w) ==
    {w} \cup UNION {Below(d, d.children[w][i]) : i \in 1..Len(d.children[w])}

\* the tree as seen from the base widget; a detached widget is not seen
TreeView(d) ==
    LET in == Below(d, BaseWidget)
    IN [wname |-> [w \in WIds |-> IF w \in in THEN d.wname[w] ELSE <<>>],
        wparent |-> [w \in WIds |-> IF w \in in THEN d.wparent[w]
                                    ELSE NoneId],
        children |-> [w \in WIds |-> IF w \in in THEN d.children[w]
                                     ELSE <<>>],
        wset |-> [w \in WIds |-> IF w \in in THEN d.wset[w]
                                 ELSE [n \in SettingNames |-> UnsetValue]]]

View(d) ==
    [data |-> DataView(d), tree |-> TreeView(d), customs |-> d.customs]

----------------------------------------------------------------------------
(* The dataset commands applied to a small document *)

\* the characters of the widget names used here
Name(n) ==
    CASE n = "" -> <<>>
      [] n = "ab" -> <<"a", "b">>
      [] OTHER -> <<n>>

\* the widgets are /p (with /p/a, /p/ab, /p/b; /p/a has /p/a/c) and /q;
\* x is a dataset imported from file f, with or without a symmetric error
\* column; object 2 is a dataset the caller holds (y may hold it already)
InitDoc(serr, ydata, ren) ==
    [data |-> [n \in DsNames |-> IF n = "x" THEN 1
                                 ELSE IF n = "y" THEN ydata ELSE NoneId],
     obj |-> [i \in DsIds |->
                IF i = 1
                THEN [DsObject(Cols(<<1, 2>>, serr, NoneCol, NoneCol), 1, None)
                        EXCEPT !.linked = "f"]
                ELSE IF i = 2
                THEN DsObject(Cols(<<3>>, NoneCol, NoneCol, NoneCol), 1, None)
                ELSE NoObj],
     nobj |-> 2,
     renames |-> [l \in LinkIds |-> ren],
     wname |-> <<Name(""), Name("p"), Name("q"), Name("a"), Name("ab"),
                 Name("b"), Name("c")>>,
     wparent |-> <<NoneId, 1, 1, 2, 2, 2, 4>>,
     children |-> <<<<2, 3>>, <<4, 5, 6>>, <<>>, <<7>>, <<>>, <<>>, <<>>>>,
     wset |-> [w \in WIds |-> [n \in SettingNames |-> Literal(0)]],
     wtype |-> <<"document", "page", "page", "grid", "grid", "grid", "grid">>,
     style |-> [t \in StyleNames |-> StyleVal],
     historyundo |-> <<>>, historyredo |-> <<>>, historybatch |-> <<>>,
     ops |-> <<>>, log |-> <<>>, customs |-> <<>>, evalcontext |-> <<>>]

NoLast == [act |-> "init", ok |-> TRUE, op |-> [kind |-> "None"]]
NoPending == [kind |-> "None"]

InitGhost ==
    /\ snap = <<>>
    /\ last = NoLast
    /\ pending = NoPending

InitData ==
    /\ \E ydata \in {NoneId, 2} : doc = InitDoc(NoneCol, ydata, NoneDict)
    /\ InitGhost

\* the renames metadata of the link is unset, or empty
InitRename ==
    /\ \E ydata \in {NoneId, 2}, ren \in {NoneDict, <<>>} :
          doc = InitDoc(NoneCol, ydata, ren)
    /\ InitGhost

InitEdit ==
    /\ \E serr \in {NoneCol, <<1, 1>>}, ydata \in {NoneId, 2} :
          doc = InitDoc(serr, ydata, NoneDict)
    /\ InitGhost

ResetLog(d) == [d EXCEPT !.log = <<>>]

\* the document as the record of an action keeps it
Before(d) == [d EXCEPT !.log = <<>>, !.historyredo = <<>>]

\* the children of composite id on which do (or undo) was called, in order
RECURSIVE Called(_, _, _)
Called(log, ev, id) ==
    IF log = <<>> THEN <<>>
    ELSE LET e == Head(log)
         IN IF e[1] = ev /\ e[2] = id
            THEN <<e[3]>> \o Called(Tail(log), ev, id)
            ELSE Called(Tail(log), ev, id)

\* the dataset objects an operation object refers to
OpRefs(op) ==
    IF op.kind = "DatasetPlugin"
    THEN {op.olddata[i][2] : i \in 1..Len(op.olddata)} \cup Range(op.manager)
    ELSE IF op.kind = "DatasetDeleteByFile"
    THEN {op.olddatasets[i][2] : i \in 1..Len(op.olddatasets)}
    ELSE {op[f] : f \in DOMAIN op \cap {"dataset", "olddata", "olddataset"}}

SeqRefs(ops) == UNION {OpRefs(ops[i]) : i \in 1..Len(ops)}

\* an object that nothing refers to any more is freed by the runtime
Reachable(d, held) ==
    {d.data[n] : n \in DsNames} \cup SeqRefs(d.historyundo)
        \cup SeqRefs(d.historyredo) \cup SeqRefs(held)
        \cup UNION {SeqRefs(d.ops[i]) : i \in 1..Len(d.ops)}

Collect(d, held) ==
    [d EXCEPT !.obj = [i \in DsIds |->
                         IF i \in Reachable(d, held) \/ i <= 2 THEN d.obj[i]
                         ELSE NoObj]]

\* the caller hands op to the document; s0 is the document the command was
\* constructed in
CommitIn(d, op, s0) ==
    LET r0 == Do(ResetLog(d), op)
        r == Record(r0)
        pre == View(d)
    IN /\ doc' = Collect(r.doc, <<>>)
       /\ snap' = IF r.ok /\ Len(r.doc.historyundo) > Len(d.historyundo)
                  THEN Append(snap, [pre |-> pre, s0 |-> s0])
                  ELSE snap
       /\ last' = [act |-> "do", ok |-> r.ok, op |-> r.op, given |-> op,
                   pre |-> pre, s0 |-> s0, before |-> Before(d),
                   atreturn |-> [r0.doc EXCEPT !.historyredo = <<>>],
                   failedat |-> IF IsComposite(op) /\ ~r.ok
                                THEN Len(Called(r.doc.log, "do", op.id))
                                ELSE 0]

Commit(op, s0) == CommitIn(doc, op, s0)

CanCommit(nalloc) ==
    /\ Len(doc.historyundo) < MaxHist
    /\ doc.nobj + nalloc <= MaxObj

\* the names the callers of the creation commands use
SetNames == {"x", "y"}

ApplyDatasetSet ==
    /\ CanCommit(0)
    /\ \E n \in SetNames, ds \in 1..doc.nobj :
          Commit(OpDatasetSet(n, ds), View(doc))
    /\ UNCHANGED pending

ApplyDatasetDelete ==
    /\ CanCommit(0)
    /\ \E n \in DsNames : Commit(OpDatasetDelete(n), View(doc))
    /\ UNCHANGED pending

ApplyDatasetRename ==
    /\ Len(doc.historyundo) < MaxRenames
    /\ \E o \in DsNames, n \in DsNames :
          /\ ~HasData(doc, n)
          /\ Commit(OpDatasetRename(o, n), View(doc))
    /\ UNCHANGED pending

ApplyDatasetDuplicate ==
    /\ CanCommit(1)
    /\ \E o \in SetNames, n \in SetNames :
          Commit(OpDatasetDuplicate(o, n), View(doc))
    /\ UNCHANGED pending

ApplyDatasetUnlinkFile ==
    /\ CanCommit(0)
    /\ \E n \in DsNames : Commit(OpDatasetUnlinkFile(n), View(doc))
    /\ UNCHANGED pending

ApplyDatasetUnlinkRelation ==
    /\ CanCommit(1)
    /\ \E n \in SetNames : Commit(OpDatasetUnlinkRelation(n), View(doc))
    /\ UNCHANGED pending

\* the column names callers give: the columns, and a name that is none
ColumnArgs == ColNames \cup {"data2"}

ApplyDatasetAddColumn ==
    /\ CanCommit(0)
    /\ \E n \in SetNames, c \in ColumnArgs :
          Commit(OpDatasetAddColumn(n, c), View(doc))
    /\ UNCHANGED pending

RangeParts ==
    {[data |-> <<0, 2>>, serr |-> <<1, 2>>, perr |-> NoneRange,
      nerr |-> NoneRange]}

ApplyDatasetCreateRange ==
    /\ CanCommit(2)
    /\ \E n \in SetNames, parts \in RangeParts, linked \in BOOLEAN :
          Commit(OpDatasetCreateRange(n, 2, parts, linked), View(doc))
    /\ UNCHANGED pending

EvalCols ==
    {Cols(<<5, 6>>, <<1, 1>>, NoneCol, NoneCol)}

ApplyDatasetCreateParameteric ==
    /\ CanCommit(2)
    /\ \E n \in SetNames, ev \in EvalCols, linked \in BOOLEAN :
          Commit(OpDatasetCreateParameteric(n, ev, linked), View(doc))
    /\ UNCHANGED pending

ApplyDatasetCreateExpression ==
    /\ CanCommit(2)
    /\ \E n \in SetNames, ev \in EvalCols, link \in BOOLEAN :
          Commit(OpDatasetCreateExpression(n, ev, link), View(doc))
    /\ UNCHANGED pending

EvalData2D == {<< <<1, 2>>, <<3, 4>> >>}

ApplyDataset2D ==
    /\ CanCommit(2)
    /\ \E k \in TwoDKinds, n \in SetNames, ev \in EvalData2D,
          link \in BOOLEAN :
          Commit(OpDataset2D(k, n, ev, link), View(doc))
    /\ UNCHANGED pending

\* the user undoes the last committed command
UndoLast ==
    /\ doc.historyundo # <<>>
    /\ LET r == UndoOperation(ResetLog(doc))
       IN /\ doc' = Collect(r.doc, <<>>)
          /\ snap' = Front(snap)
          /\ last' = [act |-> "undo", ok |-> r.ok, op |-> r.op,
                      pre |-> Last(snap).pre, s0 |-> Last(snap).s0,
                      before |-> Before(doc), atreturn |-> r.doc,
                      failedat |-> 0]
    /\ UNCHANGED pending

NextData ==
    \/ ApplyDatasetSet
    \/ ApplyDatasetDelete
    \/ ApplyDatasetDuplicate
    \/ ApplyDatasetUnlinkRelation
    \/ ApplyDatasetCreateRange
    \/ ApplyDatasetCreateParameteric
    \/ ApplyDatasetCreateExpression
    \/ ApplyDataset2D
    \/ UndoLast

SpecData == InitData /\ [][NextData]_vars

\* renaming, unlinking and deleting datasets that came from file f
NextRename ==
    \/ ApplyDatasetRename
    \/ ApplyDatasetUnlinkFile
    \/ ApplyDatasetDelete
    \/ UndoLast

SpecRename == InitRename /\ [][NextRename]_vars

\* editing the columns of datasets
NextEdit ==
    \/ ApplyDatasetAddColumn
    \/ UndoLast

SpecEdit == InitEdit /\ [][NextEdit]_vars

----------------------------------------------------------------------------
(* Deleting widgets *)

MaxPaths == 2      \* widgets handed to one OperationWidgetsDelete

InitWidget ==
    /\ doc = InitDoc(NoneCol, NoneId, NoneDict)
    /\ InitGhost

\* the lists of at most n different elements of S
Lists(S, n) ==
    UNION {{s \in [1..k -> S] : \A i, j \in 1..k : i # j => s[i] # s[j]} :
             k \in 1..n}

\* OperationWidgetsDelete.__init__ takes the paths of the widgets: the user
\* selects widgets below the base widget, in a document with nothing to redo
ApplyWidgetsDelete ==
    /\ CanCommit(0)
    /\ doc.historyredo = <<>>
    /\ \E ws \in Lists(Below(doc, BaseWidget) \ {BaseWidget}, MaxPaths) :
          Commit(OpWidgetsDelete([i \in 1..Len(ws) |-> WidgetPath(doc, ws[i])]),
                 View(doc))
    /\ UNCHANGED pending

ApplyWidgetDelete ==
    /\ CanCommit(0)
    /\ \E w \in Below(doc, BaseWidget) :
          Commit(OpWidgetDelete(WidgetPath(doc, w)), View(doc))
    /\ UNCHANGED pending

NextWidget ==
    \/ ApplyWidgetsDelete
    \/ ApplyWidgetDelete
    \/ UndoLast

SpecWidget == InitWidget /\ [][NextWidget]_vars

----------------------------------------------------------------------------
(* Deleting and inserting rows *)

MaxRows == 2       \* rows deleted or inserted by one operation

\* x holds three rows, with or without error-bar columns; y holds one row
InitRow ==
    /\ \E serr \in {NoneCol, <<4, 5, 6>>}, perr \in {NoneCol, <<7, 8, 9>>} :
          doc = [InitDoc(NoneCol, 2, NoneDict) EXCEPT
                   !.obj[1].cols = Cols(<<1, 2, 3>>, serr, perr, NoneCol)]
    /\ InitGhost

Rows(d, name) == Len(d.obj[d.data[name]].cols.data)

\* the rows [row, row+numrows) are rows of the dataset
ApplyDatasetDeleteRow ==
    /\ CanCommit(0)
    /\ doc.historyredo = <<>>
    /\ \E n \in SetNames, numrows \in 1..MaxRows :
          \E row \in 0..(Rows(doc, n) - numrows) :
             Commit(OpDatasetDeleteRow(n, row, numrows), View(doc))
    /\ UNCHANGED pending

\* rows are inserted before a row of the dataset, or after the last one
ApplyDatasetInsertRow ==
    /\ CanCommit(0)
    /\ doc.historyredo = <<>>
    /\ \E n \in SetNames, numrows \in 1..MaxRows :
          \E row \in 0..Rows(doc, n) :
             Commit(OpDatasetInsertRow(n, row, numrows), View(doc))
    /\ UNCHANGED pending

NextRow ==
    \/ ApplyDatasetDeleteRow
    \/ ApplyDatasetInsertRow
    \/ UndoLast

SpecRow == InitRow /\ [][NextRow]_vars

----------------------------------------------------------------------------
(* Tagging datasets *)

\* x and y are datasets; each may carry the tag T already
InitTag ==
    /\ \E xtags \in {{}, {"T"}, {"T", "U"}}, ytags \in {{}, {"T"}} :
          doc = [InitDoc(NoneCol, 2, NoneDict) EXCEPT !.obj[1].tags = xtags,
                                                      !.obj[2].tags = ytags]
    /\ InitGhost

ApplyDataTag ==
    /\ CanCommit(0)
    /\ doc.historyredo = <<>>
    /\ \E tag \in TagNames, names \in Lists(SetNames, Cardinality(SetNames)) :
          Commit(OpDataTag(tag, names), View(doc))
    /\ UNCHANGED pending

ApplyDataUntag ==
    /\ CanCommit(0)
    /\ doc.historyredo = <<>>
    /\ \E tag \in TagNames, names \in Lists(SetNames, Cardinality(SetNames)) :
          Commit(OpDataUntag(tag, names), View(doc))
    /\ UNCHANGED pending

NextTag ==
    \/ ApplyDataTag
    \/ ApplyDataUntag
    \/ UndoLast

SpecTag == InitTag /\ [][NextTag]_vars

----------------------------------------------------------------------------
(* Moving widgets *)

\* the child of /p/a is named c, or b like a child of /p
InitMove ==
    /\ \E n \in {"c", "b"} :
          doc = [InitDoc(NoneCol, NoneId, NoneDict) EXCEPT !.wname[7] = Name(n)]
    /\ InitGhost

ApplyWidgetMoveUpDown ==
    /\ CanCommit(0)
    /\ doc.historyredo = <<>>
    /\ \E w \in Below(doc, BaseWidget), direction \in {0 - 1, 1} :
          Commit(OpWidgetMoveUpDown(WidgetPath(doc, w), direction), View(doc))
    /\ UNCHANGED pending

\* a widget is dropped on a widget that is not below it, before one of its
\* children or (with -1, or the number of children) after the last one
ApplyWidgetMove ==
    /\ CanCommit(0)
    /\ doc.historyredo = <<>>
    /\ \E child \in Below(doc, BaseWidget) \ {BaseWidget} :
          \E newparent \in Below(doc, BaseWidget) \ Below(doc, child) :
             \E newindex \in (0 - 1)..Len(doc.children[newparent]) :
                Commit(OpWidgetMove(WidgetPath(doc, child),
                                    WidgetPath(doc, newparent), newindex),
                       View(doc))
    /\ UNCHANGED pending

NextMove ==
    \/ ApplyWidgetMoveUpDown
    \/ ApplyWidgetMove
    \/ UndoLast

SpecMove == InitMove /\ [][NextMove]_vars

----------------------------------------------------------------------------
(* Validating before a dataset is created *)

\* what the expressions evaluate to: columns, or nothing when they are bad
ValidateCols == EvalCols \cup {Cols(NoneCol, NoneCol, NoneCol, NoneCol)}

\* the matrices the 2D expressions evaluate to, some without rows or columns
ValidateData2D ==
    EvalData2D \cup {<<>>, << <<>> >>, << <<>>, <<>> >>, << <<1>> >>}

\* the object a validation made is dropped when the call returns, unless
\* something refers to it
Release(d, d0) ==
    IF d.nobj \in Reachable(d, <<>>) THEN d
    ELSE [Collect(d, <<>>) EXCEPT !.nobj = d0.nobj]

ValidateIn(d, op, r) ==
    /\ doc' = Release(r.doc, d)
    /\ last' = [act |-> "validate", ok |-> r.ok, exc |-> r.exc,
                result |-> r.result, op |-> op, pre |-> View(d),
                before |-> Before(d)]
    /\ UNCHANGED <<snap, pending>>

\* the dialog validates what the user entered, before anything is committed
ValidateExpression ==
    /\ doc.historyundo = <<>> /\ doc.historyredo = <<>>
    /\ doc.nobj + 1 <= MaxObj
    /\ \E n \in SetNames, ev \in ValidateCols, link \in BOOLEAN :
          LET op == OpDatasetCreateExpression(n, ev, link)
          IN ValidateIn(doc, op, DatasetCreateExpressionValidate(doc, op))

ValidateExpression2D ==
    /\ doc.historyundo = <<>> /\ doc.historyredo = <<>>
    /\ doc.nobj + 1 <= MaxObj
    /\ \E k \in TwoDKinds, n \in SetNames, ev \in ValidateData2D,
          link \in BOOLEAN :
          LET op == OpDataset2D(k, n, ev, link)
          IN ValidateIn(doc, op, Dataset2DBaseValidate(doc, op))

\* what passed the validation is committed
ApplyValidated ==
    /\ CanCommit(2)
    /\ last.act = "validate" /\ last.ok /\ last.result
    /\ Commit(last.op, View(doc))
    /\ UNCHANGED pending

NextValidate ==
    \/ ValidateExpression
    \/ ValidateExpression2D
    \/ ApplyValidated
    \/ UndoLast

SpecValidate == InitData /\ [][NextValidate]_vars

----------------------------------------------------------------------------
(* Dataset plugins *)

PluginNames == {<<>>, <<"x">>, <<"z">>, <<"x", "z">>, <<"y", "z">>}

PluginRenames == {<<>>, << <<"z", "x">> >>, << <<"z", None>> >>,
                  << <<"x", "y">> >>}

Plugins == [datasetnames : PluginNames, fails : BOOLEAN]

ApplyDatasetPlugin ==
    /\ CanCommit(2)
    /\ doc.historyredo = <<>>
    /\ \E plugin \in Plugins, names \in PluginRenames :
          Commit(OpDatasetPlugin(plugin, names), View(doc))
    /\ UNCHANGED pending

\* validate is called on a command that has been constructed
ValidatePlugin ==
    /\ doc.historyundo = <<>> /\ doc.historyredo = <<>>
    /\ \E plugin \in Plugins, names \in PluginRenames :
          LET op == OpDatasetPlugin(plugin, names)
          IN ValidateIn(doc, op, DatasetPluginValidate(doc, op))

\* validate is called on the command that has just been done
ValidateDone ==
    /\ doc.historyundo # <<>>
    /\ last.act = "do"
    /\ Last(doc.historyundo).kind = "DatasetPlugin"
    /\ LET op == Last(doc.historyundo)
       IN ValidateIn(doc, op, DatasetPluginValidate(ResetLog(doc), op))

NextPlugin ==
    \/ ApplyDatasetPlugin
    \/ ValidatePlugin
    \/ ValidateDone
    \/ UndoLast

SpecPlugin == InitData /\ [][NextPlugin]_vars

(* Unlinking and deleting the datasets of a file *)

InitByFile ==
    /\ \E ydata \in {NoneId, 2}, lx \in FileLinks \cup {None},
          ly \in FileLinks \cup {None} :
          /\ ydata = NoneId => ly = None
          /\ doc = [InitDoc(NoneCol, ydata, NoneDict)
                      EXCEPT !.renames = [l \in FileLinks |-> NoneDict],
                             !.obj[1].linked = lx, !.obj[2].linked = ly]
    /\ InitGhost

ApplyDatasetUnlinkByFile ==
    /\ CanCommit(0)
    /\ doc.historyredo = <<>>
    /\ \E filename \in Filenames :
          Commit(OpDatasetUnlinkByFile(filename), View(doc))
    /\ UNCHANGED pending

ApplyDatasetDeleteByFile ==
    /\ CanCommit(0)
    /\ doc.historyredo = <<>>
    /\ \E filename \in Filenames :
          Commit(OpDatasetDeleteByFile(filename), View(doc))
    /\ UNCHANGED pending

NextByFile ==
    \/ ApplyDatasetUnlinkByFile
    \/ ApplyDatasetDeleteByFile
    \/ UndoLast

SpecByFile == InitByFile /\ [][NextByFile]_vars

(* Custom definitions *)

\* a custom definition: its type, its name and its value
Customs == {<<"constant", "a", "1">>, <<"constant", "a", "2">>,
            <<"function", "f", "x">>}

CustomLists ==
    {<<>>} \cup {<<c>> : c \in Customs} \cup {<<c, e>> : c, e \in Customs}

InitCustom ==
    /\ \E customs \in CustomLists :
          doc = [InitDoc(NoneCol, 2, NoneDict)
                   EXCEPT !.customs = customs, !.evalcontext = customs]
    /\ InitGhost

ApplySetCustom ==
    /\ CanCommit(0)
    /\ doc.historyredo = <<>>
    /\ \E vals \in CustomLists : Commit(OpSetCustom(vals), View(doc))
    /\ UNCHANGED pending

NextCustom ==
    \/ ApplySetCustom
    \/ UndoLast

SpecCustom == InitCustom /\ [][NextCustom]_vars

(* Deleting a selection of widgets *)

MaxPrune == 3      \* widgets selected for one OperationWidgetsDelete

\* the user deletes a selection of widgets of the document just loaded
ApplySelectionDelete ==
    /\ CanCommit(0)
    /\ doc.historyundo = <<>> /\ doc.historyredo = <<>>
    /\ \E ws \in Lists(Below(doc, BaseWidget) \ {BaseWidget}, MaxPrune) :
          Commit(OpWidgetsDelete([i \in 1..Len(ws) |-> WidgetPath(doc, ws[i])]),
                 View(doc))
    /\ UNCHANGED pending

NextPrune ==
    \/ ApplySelectionDelete
    \/ UndoLast

SpecPrune == InitWidget /\ [][NextPrune]_vars

(* All the widget commands *)

MaxTree == 2       \* widget commands on the undo stack

\* the widget /p/ab has not been made yet
InitTree ==
    /\ doc = [InitDoc(NoneCol, NoneId, NoneDict)
                EXCEPT !.wtype[5] = "none", !.wname[5] = <<>>,
                       !.wparent[5] = NoneId, !.children[2] = <<4, 6>>]
    /\ InitGhost

CanTree == Len(doc.historyundo) < MaxTree /\ doc.historyredo = <<>>

\* /p/a or /p/b gets the name b (which /p/b has) or n
ApplyWidgetRename ==
    /\ CanTree
    /\ \E w \in {4, 6} \cap Below(doc, BaseWidget),
          newname \in {Name("b"), Name("n")} :
          Commit(OpWidgetRename(WidgetPath(doc, w), newname), View(doc))
    /\ UNCHANGED pending

\* a grid is added to /p or to /p/a, first or last, named a or not named
ApplyWidgetAdd ==
    /\ CanTree
    /\ Unmade(doc) # {}
    /\ \E parent \in {2, 4} \cap Below(doc, BaseWidget),
          name \in {NoneName, Name("a")}, index \in {0 - 1, 0} :
          Commit(OpWidgetAdd(WidgetPath(doc, parent), "grid", name, index),
                 View(doc))
    /\ UNCHANGED pending

\* the page /p or a widget below it is deleted
ApplyTreeDelete ==
    /\ CanTree
    /\ \E w \in Below(doc, 2) :
          Commit(OpWidgetDelete(WidgetPath(doc, w)), View(doc))
    /\ UNCHANGED pending

\* the widgets that are selected or dropped elsewhere: /p/a, which has a
\* child, its child, its sibling /p/b and the added one
Picked == {4, 5, 6, 7}

\* two of the picked widgets are deleted together
ApplyTreeSelectionDelete ==
    /\ CanTree
    /\ \E ws \in Lists(Picked \cap Below(doc, BaseWidget), 2) :
          /\ Len(ws) = 2
          /\ Commit(OpWidgetsDelete([i \in 1..Len(ws) |->
                                        WidgetPath(doc, ws[i])]), View(doc))
    /\ UNCHANGED pending

\* /p/a or /p/b is moved up or down
ApplyTreeMoveUpDown ==
    /\ CanTree
    /\ \E w \in {4, 6} \cap Below(doc, BaseWidget), direction \in {0 - 1, 1} :
          Commit(OpWidgetMoveUpDown(WidgetPath(doc, w), direction), View(doc))
    /\ UNCHANGED pending

\* a picked widget other than /p/b is dropped on a page or on /p/a, if
\* that is not below it, as the first or as the last child
ApplyTreeMove ==
    /\ CanTree
    /\ \E child \in (Picked \ {6}) \cap Below(doc, BaseWidget) :
          \E newparent \in ({2, 3, 4} \cap Below(doc, BaseWidget))
                               \ Below(doc, child) :
             \E newindex \in {0 - 1, 0} :
                Commit(OpWidgetMove(WidgetPath(doc, child),
                                    WidgetPath(doc, newparent), newindex),
                       View(doc))
    /\ UNCHANGED pending

NextTree ==
    \/ ApplyWidgetRename
    \/ ApplyWidgetAdd
    \/ ApplyTreeDelete
    \/ ApplyTreeSelectionDelete
    \/ ApplyTreeMoveUpDown
    \/ ApplyTreeMove
    \/ UndoLast

SpecTree == InitTree /\ [][NextTree]_vars

(* Changing settings *)

\* the widgets' settings differ, and one of them is bound to the stylesheet
InitSetting ==
    /\ doc = [InitDoc(NoneCol, NoneId, NoneDict) EXCEPT
                 !.wset[2] = [n \in SettingNames |-> Literal(2)],
                 !.wset[4] = [n \in SettingNames |-> Literal(1)],
                 !.wset[7] = [n \in SettingNames |-> Reference("s")]]
    /\ InitGhost

Levels == {0 - 2, 0 - 1, 0, 1, 2}

\* the setting of a page or of a grid is propagated to the widgets of its
\* type, below the base widget or below a chosen root
ApplySettingPropagate ==
    /\ CanCommit(0)
    /\ doc.historyredo = <<>>
    /\ \E source \in {2, 4}, sname \in SettingNames, root \in {NoneId, 2, 4},
          widgetname \in {NoneName, doc.wname[4], doc.wname[7]},
          maxlevels \in Levels :
          Commit(OpSettingPropagate(doc, source, sname, widgetname, root,
                                    maxlevels), View(doc))
    /\ UNCHANGED pending

ApplySettingSet ==
    /\ CanCommit(0)
    /\ \E w \in {4, 7}, sname \in SettingNames,
          value \in {Literal(2)} \cup {Reference(s) : s \in StyleNames} :
          Commit(OpSettingSet(WidgetPath(doc, w), sname, value), View(doc))
    /\ UNCHANGED pending

NextSetting ==
    \/ ApplySettingPropagate
    \/ ApplySettingSet
    \/ UndoLast

SpecSetting == InitSetting /\ [][NextSetting]_vars

----------------------------------------------------------------------------
(* Commands that are constructed first and executed later *)

MaxCapture == 2    \* depth of the undo stack when execution is deferred

\* the commands that are kept, and the commands applied in between: on the
\* same setting, the same dataset name and the children of the same widget
KeptCmds(d) ==
    {OpSettingSet(<<"/", "p", "/", "a">>, "color", Literal(2)),
     OpDatasetSet("y", 2)}
        \cup {OpWidgetDelete(WidgetPath(d, w)) :
                 w \in Range(d.children[2]) \ {4, 5}}

OtherCmds(d) ==
    {OpSettingSet(<<"/", "p", "/", "a">>, "color", Literal(1)),
     OpDatasetSet("y", 1)}
        \cup {OpWidgetDelete(WidgetPath(d, w)) :
                 w \in Range(d.children[2]) \ {4, 6}}

\* a caller constructs a command and keeps it
Construct ==
    /\ pending = NoPending
    /\ doc.historyundo = <<>>
    /\ \E op \in KeptCmds(doc) :
          pending' = [kind |-> "constructed", op |-> op, s0 |-> View(doc)]
    /\ UNCHANGED <<doc, snap, last>>

\* another command is applied to the document while the caller keeps its own
ApplyCommand ==
    /\ pending.kind = "constructed"
    /\ Len(doc.historyundo) < MaxCapture
    /\ \E op \in OtherCmds(doc) : Commit(op, View(doc))
    /\ UNCHANGED pending

\* the caller hands the command it kept to the document
Execute ==
    /\ pending.kind = "constructed"
    /\ Len(doc.historyundo) < MaxCapture
    /\ CommitIn(doc, pending.op, pending.s0)
    /\ pending' = NoPending

NextCapture ==
    \/ Construct
    \/ ApplyCommand
    \/ Execute
    \/ UndoLast

SpecCapture == InitWidget /\ [][NextCapture]_vars

----------------------------------------------------------------------------
(* Composite commands applied to a small document *)

MaxOps == 1        \* composite command objects that may be constructed

\* the commands that callers, style sheets and plugins issue here; deleting
\* z raises, as no dataset z exists
BatchCmds ==
    {OpDatasetSet("y", 2), OpDatasetDelete("x"), OpDatasetDelete("z")}

Runs ==
    {[cmds |-> c, raiseafter |-> k] :
        c \in {<<>>} \cup {<<a>> : a \in BatchCmds}
                \cup {<<a, b>> : a, b \in BatchCmds},
        k \in {NoRaise, 1}}

\* constructing an OperationMultiple makes a new object holding its list
NewComposite(d, children) == [d EXCEPT !.ops = Append(d.ops, children)]

CanCommitComposite ==
    /\ Len(doc.historyundo) < MaxHist
    /\ Len(doc.ops) < MaxOps
    /\ pending = NoPending

\* the caller keeps a composite whose do raised
Keep(op) ==
    pending' = IF last'.ok THEN NoPending
               ELSE [kind |-> "failed", op |-> op, pre |-> View(doc),
                     failedat |-> last'.failedat]

ApplyMultiple ==
    /\ CanCommitComposite
    /\ \E a \in BatchCmds, b \in BatchCmds, c \in BatchCmds :
          LET d == NewComposite(doc, <<a, b, c>>)
              op == [kind |-> "Multiple", id |-> Len(d.ops)]
          IN CommitIn(d, op, View(doc)) /\ Keep(op)

ApplyToolsPlugin ==
    /\ CanCommitComposite
    /\ \E run \in Runs :
          LET d == NewComposite(doc, <<>>)
              op == [kind |-> "ToolsPlugin", id |-> Len(d.ops), run |-> run]
          IN CommitIn(d, op, View(doc)) /\ Keep(op)

ApplyLoadStyleSheet ==
    /\ CanCommitComposite
    /\ \E run \in Runs :
          LET d == NewComposite(doc, <<>>)
              op == [kind |-> "LoadStyleSheet", id |-> Len(d.ops),
                     run |-> run]
          IN CommitIn(d, op, View(doc)) /\ Keep(op)

ApplyLoadCustom ==
    /\ CanCommitComposite
    /\ \E run \in Runs :
          LET d == NewComposite(doc, <<>>)
              op == [kind |-> "LoadCustom", id |-> Len(d.ops), run |-> run]
          IN CommitIn(d, op, View(doc)) /\ Keep(op)

\* after a failed do the caller unwinds by calling the composite's undo
UndoFailed ==
    /\ pending.kind = "failed"
    /\ LET r == Undo(ResetLog(doc), pending.op)
       IN /\ doc' = Collect(r.doc, <<>>)
          /\ last' = [act |-> "undofailed", ok |-> r.ok, op |-> pending.op,
                      pre |-> pending.pre, s0 |-> pending.pre,
                      before |-> Before(doc), atreturn |-> r.doc,
                      failedat |-> pending.failedat]
    /\ pending' = NoPending
    /\ UNCHANGED snap

\* the caller drops the failed composite
DropFailed ==
    /\ pending.kind = "failed"
    /\ pending' = NoPending
    /\ UNCHANGED <<doc, snap, last>>

NextBatch ==
    \/ ApplyMultiple
    \/ ApplyToolsPlugin
    \/ ApplyLoadStyleSheet
    \/ ApplyLoadCustom
    \/ UndoFailed
    \/ DropFailed
    \/ UndoLast

SpecBatch == InitData /\ [][NextBatch]_vars

(* Undoing and redoing *)

MaxRedo == 1       \* times the redo of the document is used

\* what is kept for the record beside the redo stack: for each command
\* undone, the document before and after its do
NoPosts == [kind |-> "posts", posts |-> <<>>, redone |-> 0]

InitRedo ==
    /\ \E ydata \in {NoneId, 2} : doc = InitDoc(NoneCol, ydata, NoneDict)
    /\ snap = <<>>
    /\ last = NoLast
    /\ pending = NoPosts

RedoCmds ==
    {OpDatasetSet("y", 2), OpDatasetDelete("x"),
     OpSetCustom(<< <<"constant", "a", "1">> >>)}

RedoRuns == {run \in Runs : run.raiseafter = NoRaise}

ApplyRedoCmd ==
    /\ CanCommit(0)
    /\ doc.historyredo = <<>>
    /\ \E op \in RedoCmds : Commit(op, View(doc))
    /\ pending' = [pending EXCEPT !.posts = <<>>]

\* /p/a or /p/b is dropped on /p or on /q
ApplyRedoMove ==
    /\ CanCommit(0)
    /\ doc.historyredo = <<>>
    /\ \E child \in {4, 6} \cap Below(doc, BaseWidget),
          newparent \in {2, 3} :
          \E newindex \in (0 - 1)..Len(doc.children[newparent]) :
             Commit(OpWidgetMove(WidgetPath(doc, child),
                                 WidgetPath(doc, newparent), newindex),
                    View(doc))
    /\ pending' = [pending EXCEPT !.posts = <<>>]

ApplyRedoPlugin ==
    /\ CanCommit(0)
    /\ doc.historyredo = <<>>
    /\ Len(doc.ops) < MaxOps
    /\ \E run \in RedoRuns :
          LET d == NewComposite(doc, <<>>)
              op == [kind |-> "ToolsPlugin", id |-> Len(d.ops), run |-> run]
          IN CommitIn(d, op, View(doc))
    /\ pending' = [pending EXCEPT !.posts = <<>>]

\* document.undoOperation()
UndoKeep ==
    /\ doc.historyundo # <<>>
    /\ \E r \in {UndoOperation(ResetLog(doc))} :
          /\ doc' = Collect(r.doc, <<>>)
          /\ snap' = Front(snap)
          /\ last' = [act |-> "undo", ok |-> r.ok, op |-> r.op,
                      pre |-> Last(snap).pre, s0 |-> Last(snap).s0,
                      before |-> Before(doc), atreturn |-> r.doc,
                      failedat |-> 0]
          /\ pending' = IF r.ok
                        THEN [pending EXCEPT !.posts =
                                 Append(@, [post |-> View(doc),
                                            pre |-> Last(snap).pre])]
                        ELSE pending

\* document.redoOperation()
RedoLast ==
    /\ doc.historyredo # <<>>
    /\ pending.posts # <<>>
    /\ pending.redone < MaxRedo
    /\ \E r \in {RedoOperation(ResetLog(doc))}, kept \in {Last(pending.posts)} :
          /\ doc' = Collect(r.doc, <<>>)
          /\ snap' = IF r.ok /\ Len(r.doc.historyundo) > Len(doc.historyundo)
                     THEN Append(snap, [pre |-> kept.pre, s0 |-> kept.pre])
                     ELSE snap
          /\ last' = [act |-> "redo", ok |-> r.ok, op |-> r.op,
                      given |-> Last(doc.historyredo),
                      pre |-> kept.pre, post |-> kept.post,
                      before |-> Before(doc), atreturn |-> r.doc,
                      failedat |-> 0]
          /\ pending' = [pending EXCEPT !.posts = Front(@),
                                        !.redone = @ + 1]

NextRedo ==
    \/ ApplyRedoCmd
    \/ ApplyRedoMove
    \/ ApplyRedoPlugin
    \/ UndoKeep
    \/ RedoLast

SpecRedo == InitRedo /\ [][NextRedo]_vars

----------------------------------------------------------------------------
(* Stream: the lines of a data source, split into items *)

\* an item of a line is a list of characters
Backslash == <<"\\">>
CommentChars == {"#", "!", "%", ";"}

\* a stream over a data source: 'file' holds the lines readLine is to
\* return, each as find_re splits it; 'pos' lines have been read
NewStream(file) ==
    [kind |-> "Stream", file |-> file, pos |-> 0, remainingline |-> <<>>]

NoneItem == <<"None">>

\* nextColumn(): the first item of the buffer is taken out and returned
NextColumn(s) ==
    IF s.remainingline = <<>> THEN [result |-> NoneItem, stream |-> s]
    ELSE [result |-> Head(s.remainingline),
          stream |-> [s EXCEPT !.remainingline = Tail(@)]]

\* flushLine()
FlushLine(s) == [s EXCEPT !.remainingline = <<>>]

NotComment(x) == Head(x) \notin CommentChars

\* newLine(): readLine raises StopIteration when all lines have been read
RECURSIVE NewLine(_)
NewLine(s) ==
    IF s.pos >= Len(s.file) THEN [result |-> FALSE, stream |-> s]
    ELSE LET cmpts == s.file[s.pos + 1]
             rl == s.remainingline \o SelectSeq(cmpts, NotComment)
         IN IF rl # <<>> /\ Last(rl) = Backslash
            THEN NewLine([s EXCEPT !.pos = @ + 1, !.remainingline = Front(rl)])
            ELSE [result |-> TRUE,
                  stream |-> [s EXCEPT !.pos = @ + 1, !.remainingline = rl]]

----------------------------------------------------------------------------
(* DescriptorPart *)

\* block=None, and the list [None] of blocks
NoBlock == 0
NoBlocks == <<NoBlock>>

\* float('nan'): the value of an item that is no number
NaN == 0 - 9

\* tail=None: all values are kept
NoTail == 0 - 1

DescriptorPart(name, datatype, columns, idxrange) ==
    [name |-> name, datatype |-> datatype, columns |-> columns,
     errorcount |-> 0, single |-> idxrange = NoneRange,
     startindex |-> IF idxrange = NoneRange THEN 1 ELSE idxrange[1],
     stopindex |-> IF idxrange = NoneRange THEN 1 ELSE idxrange[2]]

\* the name of the variable that readFromStream and setInDocument build
\* from the name of the part, the index ('%s_%i') and the block ('_%i')
PartName(p, index, block) ==
    (IF p.single THEN p.name ELSE p.name \o <<"_", Digits[index]>>)
    \o (IF block # NoBlock THEN <<"_", Digits[block]>> ELSE <<>>)

\* float(val) of an item
IsNumber(val) == Len(val) = 1 /\ val[1] \in Range(Digits)
FloatOf(val) == CHOOSE i \in 1..Len(Digits) : Digits[i] = val[1]

\* guessDataType(val), for items that are numbers or plain words
GuessDataType(val) == IF IsNumber(val) THEN "float" ELSE "string"

\* the list a dataset of the reader holds; none before the first value
ListOf(datasets, fullname) ==
    IF fullname \in DictKeys(datasets) THEN DictGet(datasets, fullname)
    ELSE <<>>

\* readFromStream(stream, thedatasets, block), from the c-th column of the
\* variable 'index' on; it returns when the line has no more items
RECURSIVE ReadFromStreamAt(_, _, _, _, _, _)
ReadFromStreamAt(p, stream, datasets, block, index, c) ==
    IF index > p.stopindex
    THEN [part |-> p, stream |-> stream, datasets |-> datasets]
    ELSE IF c > Len(p.columns)
    THEN ReadFromStreamAt(p, stream, datasets, block, index + 1, 1)
    ELSE LET r == NextColumn(stream)
             val == r.result
             fullname == <<PartName(p, index, block), p.columns[c]>>
             datatype == IF p.datatype = None THEN GuessDataType(val)
                         ELSE p.datatype
             bad == datatype = "float" /\ ~IsNumber(val)
             dat == IF datatype = "float"
                    THEN (IF IsNumber(val) THEN FloatOf(val) ELSE NaN)
                    ELSE val
         IN IF val = NoneItem
            THEN [part |-> p, stream |-> r.stream, datasets |-> datasets]
            ELSE ReadFromStreamAt(
                     [p EXCEPT !.datatype = datatype,
                               !.errorcount = IF bad THEN @ + 1 ELSE @],
                     r.stream,
                     DictSet(datasets, fullname,
                             Append(ListOf(datasets, fullname), dat)),
                     block, index, c + 1)

ReadFromStream(p, stream, datasets, block) ==
    ReadFromStreamAt(p, stream, datasets, block, p.startindex, 1)

\* the columns of the variable 'name' that were read
ReadColumns(datasets, name) ==
    {col \in {"D", "+", "-", "+-"} : <<name, col>> \in DictKeys(datasets)}

\* the length of the shortest list of the variable
MinLength(datasets, name) ==
    LET lens == {Len(DictGet(datasets, <<name, col>>)) :
                    col \in ReadColumns(datasets, name)}
    IN CHOOSE n \in lens : \A m \in lens : n <= m

\* a setInDocument that leaves the lists as they were read
Truncated_whole(ds, minlength) == ds

\* 'del ds[minlength:]'
Truncated(ds, minlength) ==
    IF Len(ds) # minlength THEN SubSeq(ds, 1, minlength) ELSE ds

\* ds[-tail:]
LastValues(ds, tail) ==
    IF tail = NoTail \/ tail = 0 \/ tail >= Len(ds) THEN ds
    ELSE SubSeq(ds, Len(ds) - tail + 1, Len(ds))

\* doc.setData(name, ds) of the document that data are read into, which
\* holds its datasets by name
SetDataNamed(d, name, ds) == [d EXCEPT !.data = DictSet(@, name, ds)]

\* DescriptorPart.setInDocument, from the variable 'index' on; the lists of
\* the reader are cut where they are
RECURSIVE PartSetInDocumentAt(_, _, _, _, _, _, _, _, _)
PartSetInDocumentAt(p, datasets, d, block, linkedfile, prefix, suffix, tail, index) ==
    LET name == PartName(p, index, block)
        minlength == MinLength(datasets, name)
        cut(col, ds) == IF col \in ReadColumns(datasets, name)
                        THEN DictSet(ds, <<name, col>>,
                                     Truncated(DictGet(ds, <<name, col>>),
                                               minlength))
                        ELSE ds
        datasets1 == cut("+-", cut("-", cut("+", cut("D", datasets))))
        get(col) == IF col \in ReadColumns(datasets, name)
                    THEN LastValues(DictGet(datasets1, <<name, col>>), tail)
                    ELSE NoneCol
        ds == IF p.datatype = "float"
              THEN DsObject(Cols(get("D"), get("+-"), get("+"), get("-")),
                            1, None)
              ELSE DsObject(Cols(get("D"), NoneCol, NoneCol, NoneCol), 1, None)
        finalname == prefix \o name \o suffix
    IN IF index > p.stopindex \/ <<name, "D">> \notin DictKeys(datasets)
       THEN [doc |-> d, datasets |-> datasets, names |-> <<>>]
       ELSE LET r == PartSetInDocumentAt(
                         p, datasets1,
                         SetDataNamed(d, finalname,
                                      [ds EXCEPT !.linked = linkedfile]),
                         block, linkedfile, prefix, suffix, tail, index + 1)
            IN [r EXCEPT !.names = <<finalname>> \o @]

PartSetInDocument(p, datasets, d, block, linkedfile, prefix, suffix, tail) ==
    IF p.datatype = None THEN [doc |-> d, datasets |-> datasets, names |-> <<>>]
    ELSE PartSetInDocumentAt(p, datasets, d, block, linkedfile, prefix,
                             suffix, tail, p.startindex)

(* SimpleRead *)

\* SimpleRead(descriptor): the parts are those interpretDescriptor makes
SimpleRead(descriptor, parts) ==
    [kind |-> "SimpleRead", parts |-> parts, autodescr |-> descriptor = "",
     datasets |-> <<>>, blocks |-> NoBlocks, tail |-> NoTail]

\* 'for p in self.parts: p.readFromStream(...)', from the i-th part on; the
\* part that has read is the part of both lists
RECURSIVE ReadParts(_, _, _, _)
ReadParts(rd, stream, block, i) ==
    IF i > Len(rd.parts) THEN [reader |-> rd, stream |-> stream]
    ELSE LET r == ReadFromStream(rd.parts[i], stream, rd.datasets, block)
         IN ReadParts([rd EXCEPT !.parts[i] = r.part,
                                 !.datasets = r.datasets],
                      r.stream, block, i + 1)

\* 'while len(stream.remainingline) > 0': a part is made for every item
\* that is left
RECURSIVE ReadAutoParts(_, _, _)
ReadAutoParts(rd, stream, block) ==
    IF stream.remainingline = <<>> THEN [reader |-> rd, stream |-> stream]
    ELSE LET p == DescriptorPart(<<Digits[Len(rd.parts) + 1]>>, None,
                                 <<"D">>, NoneRange)
             r == ReadFromStream(p, stream, rd.datasets, block)
         IN ReadAutoParts([rd EXCEPT !.parts = Append(@, r.part),
                                     !.datasets = r.datasets],
                          r.stream, block)

\* the parts read a line of data
ReadLine(rd, stream, block) ==
    LET r == ReadParts(rd, stream, block, 1)
    IN IF rd.autodescr THEN ReadAutoParts(r.reader, r.stream, block)
       ELSE r

\* line[0].lower()
Lower(item) ==
    [i \in 1..Len(item) |-> CASE item[i] = "N" -> "n"
                              [] item[i] = "O" -> "o"
                              [] OTHER -> item[i]]

\* a line of _readDataBlocked that separates blocks
IsBlank(line) == Len(line) = 0 \/ Lower(line[1]) = <<"n", "o">>

\* a mutant: every blank line starts a new block
RECURSIVE ReadDataBlocked_always(_, _, _, _)
ReadDataBlocked_always(rd, stream, blocks, block) ==
    LET nl == NewLine(stream)
        line == nl.stream.remainingline
    IN IF ~nl.result
       THEN [reader |-> [rd EXCEPT !.blocks = blocks], stream |-> nl.stream]
       ELSE IF IsBlank(line)
       THEN ReadDataBlocked_always(rd, FlushLine(nl.stream), blocks, block + 1)
       ELSE LET r == ReadLine(rd, nl.stream, block)
            IN ReadDataBlocked_always(
                   r.reader, FlushLine(r.stream),
                   IF block \in Range(blocks) THEN blocks
                   ELSE Append(blocks, block), block)

\* the loop of _readDataBlocked; blocks holds the keys of the dict in the
\* order they were made
RECURSIVE ReadDataBlocked(_, _, _, _)
ReadDataBlocked(rd, stream, blocks, block) ==
    LET nl == NewLine(stream)
        line == nl.stream.remainingline
    IN IF ~nl.result
       THEN [reader |-> [rd EXCEPT !.blocks = blocks], stream |-> nl.stream]
       ELSE IF IsBlank(line)
       THEN ReadDataBlocked(rd, FlushLine(nl.stream), blocks,
                            IF block \in Range(blocks) THEN block + 1
                            ELSE block)
       ELSE LET r == ReadLine(rd, nl.stream, block)
            IN ReadDataBlocked(r.reader, FlushLine(r.stream),
                               IF block \in Range(blocks) THEN blocks
                               ELSE Append(blocks, block), block)

\* the loop of _readDataUnblocked, for sources without 'descriptor' lines
\* and with ignoretext off
RECURSIVE ReadDataUnblocked(_, _)
ReadDataUnblocked(rd, stream) ==
    LET nl == NewLine(stream)
    IN IF ~nl.result
       THEN [reader |-> [rd EXCEPT !.blocks = NoBlocks], stream |-> nl.stream]
       ELSE LET r == ReadLine(rd, nl.stream, NoBlock)
            IN ReadDataUnblocked(r.reader, FlushLine(r.stream))

\* readData(stream, useblocks)
ReadData(rd, stream, useblocks) ==
    IF useblocks THEN ReadDataBlocked(rd, stream, <<>>, 1)
    ELSE ReadDataUnblocked(rd, stream)

\* SimpleRead.setInDocument: the loop over the parts of block blocks[b],
\* from the i-th part on, and then over the blocks that follow
RECURSIVE SetInDocumentAt(_, _, _, _, _, _, _)
SetInDocumentAt(rd, d, linkedfile, prefix, suffix, b, i) ==
    IF b > Len(rd.blocks) THEN [doc |-> d, reader |-> rd, names |-> <<>>]
    ELSE IF i > Len(rd.parts)
    THEN SetInDocumentAt(rd, d, linkedfile, prefix, suffix, b + 1, 1)
    ELSE LET r == PartSetInDocument(rd.parts[i], rd.datasets, d, rd.blocks[b],
                                    linkedfile, prefix, suffix, rd.tail)
             rest == SetInDocumentAt([rd EXCEPT !.datasets = r.datasets],
                                     r.doc, linkedfile, prefix, suffix, b, i + 1)
         IN [rest EXCEPT !.names = r.names \o @]

SetInDocument(rd, d, linkedfile, prefix, suffix) ==
    SetInDocumentAt(rd, d, linkedfile,
                    IF rd.autodescr /\ prefix = <<>> /\ suffix = <<>>
                    THEN <<"c", "o", "l">> ELSE prefix,
                    suffix, 1, 1)

(* SimpleRead2D *)

\* float(v) of the 2D reader; numbers are kept in halves, so that the
\* middle of two of them is a number
HalvesOf(val) == 2 * FloatOf(val)

\* the parameters of an import (ImportParams2D) that readData looks at
ImportParams2D(xgrid, ygrid, invertrows, invertcols, transpose, gridatedge) ==
    [xgrid |-> xgrid, ygrid |-> ygrid, invertrows |-> invertrows,
     invertcols |-> invertcols, transpose |-> transpose,
     gridatedge |-> gridatedge]

\* SimpleRead2D(name, params); data and the grids are set by readData
SimpleRead2D(name, params) ==
    [kind |-> "SimpleRead2D", name |-> name, params |-> params,
     data |-> <<>>, shape |-> <<0, 0>>, xgrid |-> NoneCol, ygrid |-> NoneCol]

\* the words of a source that set a parameter and take no values
FlagWords == {"invertrows", "invertcols", "transpose", "gridatedge"}

\* settings[c](cols), for c one of these words
SetFlag(params, c) == [params EXCEPT ![c] = TRUE]

\* the loop over the lines of readData, for sources without lines of
\* ranges or grids: the rows read, the last line first
RECURSIVE ReadRows(_, _, _)
ReadRows(stream, params, rows) ==
    LET nl == NewLine(stream)
        cols == nl.stream.remainingline
    IN IF ~nl.result
       THEN [ok |-> TRUE, stream |-> nl.stream, params |-> params,
             rows |-> rows]
       ELSE IF Len(cols) = 0
       THEN (IF Len(rows) # 0
             THEN [ok |-> TRUE, stream |-> nl.stream, params |-> params,
                   rows |-> rows]
             ELSE ReadRows(nl.stream, params, rows))
       ELSE IF Len(cols[1]) = 1 /\ Lower(cols[1])[1] \in FlagWords
       THEN ReadRows(FlushLine(nl.stream), SetFlag(params, Lower(cols[1])[1]),
                     rows)
       ELSE IF \E i \in 1..Len(cols) : ~IsNumber(cols[i])
       THEN [ok |-> FALSE, stream |-> nl.stream, params |-> params,
             rows |-> rows]
       ELSE ReadRows(FlushLine(nl.stream), params,
                     <<[i \in 1..Len(cols) |-> HalvesOf(cols[i])]>> \o rows)

\* 0.5*(old[1:]+old[:-1]), with an edge added before and after if there
\* are two values or more
EdgeGrid(old) ==
    LET n == Len(old)
        g == [i \in 1..(n - 1) |-> (old[i + 1] + old[i]) \div 2]
    IN IF n >= 2
       THEN <<g[1] - (old[2] - old[1])>> \o g
            \o <<g[n - 1] + (old[n] - old[n - 1])>>
       ELSE g

\* numpy's transpose of a matrix of the given shape
Transposed(data, shape) ==
    [j \in 1..shape[2] |-> [i \in 1..shape[1] |-> data[i][j]]]

ReversedGrid(grid) == IF grid = NoneCol THEN grid ELSE Reverse(grid)

\* utils.checkAscending: every value is less than the next
CheckAscending(v) == \A i \in 1..(Len(v) - 1) : v[i] < v[i + 1]

Failed2D(rd, exc) == [ok |-> FALSE, exc |-> exc, reader |-> rd]

\* 'if self.params.transpose': the matrix is transposed; the grids are
\* assigned to themselves
Transpose2D(rd) ==
    IF rd.params.transpose
    THEN [rd EXCEPT !.data = Transposed(rd.data, rd.shape),
                    !.shape = <<rd.shape[2], rd.shape[1]>>,
                    !.xgrid = rd.xgrid, !.ygrid = rd.ygrid]
    ELSE rd

\* the last check of readData: the x grid of the reader, and the y grid if
\* the parameters have one
LengthsWrong(rd) ==
    \/ rd.xgrid # NoneCol /\ Len(rd.xgrid) # rd.shape[2] + 1
    \/ rd.params.ygrid # NoneCol /\ Len(rd.ygrid) # rd.shape[1] + 1

\* readData from 'dodgy formatting' on: the rows become the matrix
MakeData2D(rd0, rows) ==
    IF Len(rows) = 0 THEN Failed2D(rd0, "Read2DError")
    ELSE IF \E i \in 1..Len(rows) : Len(rows[i]) # Len(rows[1])
    THEN Failed2D(rd0, "Read2DError")
    ELSE
    LET rd1 == [rd0 EXCEPT !.data = rows,
                           !.shape = <<Len(rows), Len(rows[1])>>]
        rd2 == IF rd1.params.invertcols
               THEN [rd1 EXCEPT !.data = [i \in 1..Len(rows) |-> Reverse(rows[i])],
                                !.xgrid = ReversedGrid(@)]
               ELSE rd1
        rd3 == IF rd2.params.invertrows
               THEN [rd2 EXCEPT !.data = Reverse(@), !.ygrid = ReversedGrid(@)]
               ELSE rd2
        rd4 == Transpose2D(rd3)
        rd5 == [rd4 EXCEPT !.xgrid = IF rd4.params.xgrid # NoneCol
                                     THEN rd4.params.xgrid ELSE @,
                           !.ygrid = IF rd4.params.ygrid # NoneCol
                                     THEN rd4.params.ygrid ELSE @]
    IN IF \/ rd5.xgrid # NoneCol /\ ~CheckAscending(rd5.xgrid)
          \/ rd5.ygrid # NoneCol /\ ~CheckAscending(rd5.ygrid)
       THEN Failed2D(rd5, "Read2DError")
       ELSE IF LengthsWrong(rd5) THEN Failed2D(rd5, "Read2DError")
       ELSE [ok |-> TRUE, exc |-> None, reader |-> rd5]

\* SimpleRead2D.readData(stream)
ReadData2D(rd, stream) ==
    LET r == ReadRows(stream, rd.params, <<>>)
        rd0 == [rd EXCEPT !.params = r.params]
        rows == r.rows
    IN IF ~r.ok THEN Failed2D(rd0, "Read2DError")
       ELSE IF rd0.params.gridatedge
       THEN (IF rd0.params.xgrid # NoneCol \/ rd0.params.ygrid # NoneCol
             THEN Failed2D(rd0, "Read2DError")
             ELSE IF rows = <<>> THEN Failed2D(rd0, "IndexError")
             ELSE IF \E i \in 1..(Len(rows) - 1) : rows[i] = <<>>
             THEN Failed2D(rd0, "IndexError")
             ELSE MakeData2D(
                      [rd0 EXCEPT !.xgrid = EdgeGrid(Last(rows)),
                                  !.ygrid = EdgeGrid([i \in 1..(Len(rows) - 1)
                                                         |-> rows[i][1]])],
                      [i \in 1..(Len(rows) - 1) |-> Tail(rows[i])]))
       ELSE MakeData2D([rd0 EXCEPT !.xgrid = NoneCol, !.ygrid = NoneCol], rows)

----------------------------------------------------------------------------
(* Reading a stream line by line *)

MaxLines == 3      \* lines of a data source

\* the lines of the sources: blank, data, data with a comment, a comment,
\* and lines that end in a backslash
StreamLines ==
    {<<>>, <<Name("1")>>, <<Name("2"), <<"#", "c">>>>, <<<<";", "c">>>>,
     <<Name("1"), Backslash>>, <<Backslash, Backslash, <<"#", "c">>>>}

Files(lines, n) == UNION {[1..k -> lines] : k \in 0..n}

InitStream ==
    /\ doc = InitDoc(NoneCol, NoneId, NoneDict)
    /\ snap = <<>>
    /\ last = NoLast
    /\ \E file \in Files(StreamLines, MaxLines) : pending = NewStream(file)

CallNewLine ==
    /\ \E r \in {NewLine(pending)} :
          /\ pending' = r.stream
          /\ last' = [act |-> "newLine", ok |-> TRUE, result |-> r.result,
                      before |-> pending, op |-> [kind |-> "None"]]
    /\ UNCHANGED <<doc, snap>>

CallNextColumn ==
    /\ \E r \in {NextColumn(pending)} :
          /\ pending' = r.stream
          /\ last' = [act |-> "nextColumn", ok |-> TRUE, result |-> r.result,
                      before |-> pending, op |-> [kind |-> "None"]]
    /\ UNCHANGED <<doc, snap>>

CallFlushLine ==
    /\ pending' = FlushLine(pending)
    /\ last' = [act |-> "flushLine", ok |-> TRUE, result |-> FALSE,
                before |-> pending, op |-> [kind |-> "None"]]
    /\ UNCHANGED <<doc, snap>>

NextStream ==
    \/ CallNewLine
    \/ CallNextColumn
    \/ CallFlushLine

SpecStream == InitStream /\ [][NextStream]_vars

----------------------------------------------------------------------------
(* Reading datasets from a text source *)

MaxReadLines == 5  \* lines of a source that datasets are read from

\* the lines of the sources: blank, the word that separates blocks, and
\* lines of one and of two numbers
ReadLines ==
    {<<>>, <<<<"N", "o">>>>, <<Name("1")>>, <<Name("2"), Name("3")>>}

\* the descriptors of the readers and the parts interpretDescriptor makes
\* of them: '' (a part is made for every column), 'x' and 'x +- y'
Descriptors ==
    {[text |-> "", parts |-> <<>>],
     [text |-> "x",
      parts |-> <<DescriptorPart(Name("x"), None, <<"D">>, NoneRange)>>],
     [text |-> "x +- y",
      parts |-> <<DescriptorPart(Name("x"), None, <<"D", "+-">>, NoneRange),
                  DescriptorPart(Name("y"), None, <<"D">>, NoneRange)>>]}

\* a document without datasets
NewDocument == [data |-> <<>>]

InitRead ==
    /\ doc = NewDocument
    /\ snap = <<>>
    /\ last = NoLast
    /\ \E file \in Files(ReadLines, MaxReadLines), descr \in Descriptors :
          pending = [kind |-> "SimpleRead", stage |-> "new",
                     reader |-> SimpleRead(descr.text, descr.parts),
                     stream |-> NewStream(file)]

CallReadData ==
    /\ pending.stage = "new"
    /\ \E useblocks \in BOOLEAN :
          \E r \in {ReadData(pending.reader, pending.stream, useblocks)} :
             /\ pending' = [pending EXCEPT !.stage = "read",
                                           !.reader = r.reader,
                                           !.stream = r.stream]
             /\ last' = [act |-> "readData", ok |-> TRUE,
                         useblocks |-> useblocks, before |-> pending,
                         op |-> [kind |-> "None"]]
    /\ UNCHANGED <<doc, snap>>

\* the caller may ask for the last value only (reader.tail = 1)
CallSetInDocument ==
    /\ pending.stage = "read"
    /\ \E tail \in {NoTail, 1} :
          \E r \in {SetInDocument([pending.reader EXCEPT !.tail = tail], doc,
                                  "f", <<>>, <<>>)} :
             /\ pending' = [pending EXCEPT !.stage = "set",
                                           !.reader = r.reader]
             /\ doc' = r.doc
             /\ last' = [act |-> "setInDocument", ok |-> TRUE,
                         names |-> r.names, before |-> pending,
                         op |-> [kind |-> "None"]]
    /\ UNCHANGED snap

NextRead ==
    \/ CallReadData
    \/ CallSetInDocument

SpecRead == InitRead /\ [][NextRead]_vars

----------------------------------------------------------------------------
(* Setting what a part has read in the document *)

MaxVals == 3       \* values in a list of the reader

\* a list of the reader that is not there
NoList == <<0 - 1>>

\* the lists a part may have read: values, and perhaps errors, which are
\* as many as the values, or fewer, or more
ReadLists == {NoList} \cup {[i \in 1..k |-> i] : k \in 0..MaxVals}

\* the datasets of a reader whose part has read the lists
DatasetsOf(name, vals, pos, neg, sym) ==
    LET with(col, l, ds) == IF l = NoList THEN ds
                            ELSE DictSet(ds, <<name, col>>, l)
    IN with("+-", sym, with("-", neg, with("+", pos, with("D", vals, <<>>))))

\* a part 'x' or 'x[1:2]' of numbers or of text, or one that has read
\* nothing, and what it has read
InitPart ==
    /\ doc = NewDocument
    /\ snap = <<>>
    /\ last = NoLast
    /\ \E vals \in ReadLists \ {NoList}, pos \in ReadLists,
          neg \in ReadLists, sym \in ReadLists,
          datatype \in {None, "float", "string"},
          idxrange \in {NoneRange, <<1, 2>>} :
          LET p == DescriptorPart(Name("x"), datatype, <<"D", "+", "-", "+-">>,
                                  idxrange)
          IN pending = [kind |-> "DescriptorPart", stage |-> "read", part |-> p,
                        datasets |-> DatasetsOf(PartName(p, 1, NoBlock), vals,
                                                pos, neg, sym)]

CallPartSetInDocument ==
    /\ pending.stage = "read"
    /\ \E tail \in {NoTail, 0, 1, 2} :
          \E r \in {PartSetInDocument(pending.part, pending.datasets, doc,
                                      NoBlock, "f", <<>>, <<>>, tail)} :
             /\ pending' = [pending EXCEPT !.stage = "set",
                                           !.datasets = r.datasets]
             /\ doc' = r.doc
             /\ last' = [act |-> "setInDocument", ok |-> TRUE,
                         names |-> r.names, tail |-> tail, before |-> pending,
                         op |-> [kind |-> "None"]]
    /\ UNCHANGED snap

NextPart == CallPartSetInDocument

SpecPart == InitPart /\ [][NextPart]_vars

----------------------------------------------------------------------------
(* Reading a 2D dataset from a text source *)

MaxGrid == 3       \* numbers in a line, and lines of numbers, of a source

\* a source: a line of n numbers 2, 4, ..., then k lines of a number
\* (2k, ..., 4, 2 from the first line to the last) and m numbers 1, 2, ...
Source2D(n, k, m) ==
    (IF n = 0 THEN <<>> ELSE <<[i \in 1..n |-> <<Digits[2 * i]>>]>>)
    \o [j \in 1..k |->
          <<<<Digits[2 * (k - j + 1)]>>>> \o [i \in 1..m |-> <<Digits[i]>>]]

\* what comes before the numbers: nothing, a blank line, or a word that
\* sets a parameter; and after them: nothing, or a blank line and the
\* numbers of another dataset
Leads2D == {<<>>, <<<<>>>>, <<<<Name("invertrows")>>>>}
Trails2D == {<<>>, <<<<>>, <<Name("1")>>>>}

\* the grids the parameters may give
Grids2D == {NoneCol, <<2, 4, 6>>}

InitRead2D ==
    /\ doc = NewDocument
    /\ snap = <<>>
    /\ last = NoLast
    /\ \E n \in 0..MaxGrid, k \in 0..MaxGrid, m \in 0..MaxGrid,
          lead \in Leads2D, trail \in Trails2D,
          xgrid \in Grids2D, ygrid \in Grids2D,
          invertcols \in BOOLEAN, transpose \in BOOLEAN,
          gridatedge \in BOOLEAN :
          pending = [kind |-> "SimpleRead2D", stage |-> "new",
                     reader |-> SimpleRead2D(
                         Name("z"),
                         ImportParams2D(xgrid, ygrid, FALSE, invertcols,
                                        transpose, gridatedge)),
                     stream |-> NewStream(lead \o Source2D(n, k, m) \o trail)]

CallReadData2D ==
    /\ pending.stage = "new"
    /\ \E r \in {ReadData2D(pending.reader, pending.stream)} :
          /\ pending' = [pending EXCEPT !.stage = "read", !.reader = r.reader]
          /\ last' = [act |-> "readData2D", ok |-> r.ok, exc |-> r.exc,
                      before |-> pending, op |-> [kind |-> "None"]]
    /\ UNCHANGED <<doc, snap>>

NextRead2D == CallReadData2D

SpecRead2D == InitRead2D /\ [][NextRead2D]_vars

----------------------------------------------------------------------------
(* Properties *)

\* C1: for every command, do followed by undo leaves the document (the
\* dataset map with the values, links and link metadata of its datasets)
\* identical to the document before do.
DoUndoIdentity ==
    last.act = "undo" => last.ok /\ View(doc) = last.pre

\* C8: undoing a rename of a file-linked dataset (one rename or a chain of
\* renames undone last one first) puts the dataset back under its previous
\* name with the renames metadata of its link exactly as before that
\* rename, also when the metadata was unset (None) before the first rename.
RenameChainRestoresMetadata ==
    last.act = "undo" /\ last.op.kind = "DatasetRename"
        => last.ok /\ View(doc) = last.pre

\* C2: a composite of 3 commands whose 2nd command fails leaves command 1
\* applied, and the composite's undo called after the failure reverses
\* command 1 and calls the undo of neither the 2nd nor the 3rd command.
PartialFailureUndo ==
    /\ last.act = "do" /\ last.op.kind = "Multiple" /\ ~last.ok
           /\ last.failedat = 2
        => View(doc)
             = View(Do(last.before, last.before.ops[last.op.id][1]).doc)
    /\ last.act = "undofailed" /\ last.op.kind = "Multiple"
           /\ last.failedat = 2
        => /\ last.ok
           /\ View(doc) = last.pre
           /\ Called(doc.log, "undo", last.op.id) = <<1>>

HistoryDriving == {"LoadStyleSheet", "LoadCustom", "ToolsPlugin"}

\* C3: when do of a history-driving composite returns normally, the batch
\* it opened has been closed: one open, one close, no batch left open.
BatchClosedAfterDo ==
    last.act = "do" /\ last.op.kind \in HistoryDriving /\ last.ok
        => /\ last.atreturn.historybatch = last.before.historybatch
           /\ Called(last.atreturn.log, "open", last.op.id) = <<0>>
           /\ Called(last.atreturn.log, "close", last.op.id) = <<0>>

\* the number of leading commands of a run that return normally
RECURSIVE Succeeding(_, _, _)
Succeeding(d, run, i) ==
    IF (run.raiseafter # NoRaise /\ i > run.raiseafter) \/ i > Len(run.cmds)
    THEN i - 1
    ELSE LET r == Do(d, run.cmds[i])
         IN IF ~r.ok THEN i - 1 ELSE Succeeding(r.doc, run, i + 1)

\* a command as it was constructed: the attributes that do assigns are unset
Fresh(op) ==
    [f \in DOMAIN op |->
        IF f \in {"olddata", "olddataset"} THEN UnsetId ELSE op[f]]

FreshAll(ops) == [i \in 1..Len(ops) |-> Fresh(ops[i])]

\* C4: when the interpreter or plugin raises during do of a history-driving
\* composite, the batch is closed exactly once before do raises, and the
\* commands issued before the failure are the children of that composite
\* (none of them is a top-level history entry).
BatchClosedOnFailure ==
    last.act = "do" /\ last.op.kind \in HistoryDriving /\ ~last.ok
        => /\ last.atreturn.historybatch = last.before.historybatch
           /\ Called(last.atreturn.log, "open", last.op.id) = <<0>>
           /\ Called(last.atreturn.log, "close", last.op.id) = <<0>>
           /\ Last(last.atreturn.log)[1] = "close"
           /\ FreshAll(doc.ops[last.op.id])
                 = SubSeq(last.op.run.cmds, 1,
                          Succeeding(last.before, last.op.run, 1))
           /\ doc.historyundo = last.before.historyundo

\* a style sheet issued a command and then failed
BatchClosedOnFailureWitness ==
    /\ last.act = "do" /\ last.op.kind = "LoadStyleSheet" /\ ~last.ok
    /\ Len(doc.ops[last.op.id]) >= 1

\* k, k-1, ..., 1
RECURSIVE Downto(_)
Downto(k) == IF k = 0 THEN <<>> ELSE <<k>> \o Downto(k - 1)

InstallKinds ==
    {"DatasetSet", "DatasetDuplicate", "DatasetCreateRange",
     "DatasetCreateParameteric", "DatasetCreateExpression"} \cup TwoDKinds

InstalledName(op) ==
    IF op.kind = "DatasetDuplicate" THEN op.duplname ELSE op.datasetname

\* C9: after the undo of a command that installed a dataset under a name,
\* the name maps to the very dataset object it mapped to before do, and is
\* absent if it was absent before do.
UniformDatasetBackup ==
    last.act = "undo" /\ last.op.kind \in InstallKinds
        => /\ last.ok
           /\ doc.data[InstalledName(last.op)]
                  = last.pre.data[InstalledName(last.op)].id

\* a creation command replaced an existing dataset by a new object, and
\* its undo has run
UniformDatasetBackupWitness ==
    /\ last.act = "undo"
    /\ last.op.kind \in InstallKinds \ {"DatasetSet", "DatasetDuplicate"}
    /\ last.op.olddataset # NoneId
    /\ doc.data[last.op.datasetname] = 1

\* the widgets that op names, as widgets of the tree v
Named(v, op) ==
    [i \in 1..Len(op.widgetpaths) |->
        ResolveFullWidgetPath(v, op.widgetpaths[i])]

RECURSIVE Ancestors(_, _)
Ancestors(v, w) ==
    IF v.wparent[w] = NoneId THEN {}
    ELSE {v.wparent[w]} \cup Ancestors(v, v.wparent[w])

\* the positions in op's list of a widget whose ancestor is in the list too
Implied(v, op) ==
    {j \in 1..Len(op.widgetpaths) :
        Ancestors(v, Named(v, op)[j]) \cap Range(Named(v, op)) # {}}

\* C6: OperationWidgetsDelete on a list with a widget A and a descendant B
\* of A does what it does on the list without B (B goes with A), and undo
\* puts A back at its index with B under it at B's index.
DeleteWithDescendant ==
    /\ last.act = "do" /\ last.op.kind = "WidgetsDelete"
        => \A j \in Implied(last.pre.tree, last.op) :
              LET alone == Do(ResetLog(last.before),
                              OpWidgetsDelete(RemoveAt(last.op.widgetpaths, j)))
              IN /\ last.ok = alone.ok
                 /\ View(doc) = View(alone.doc)
    /\ last.act = "undo" /\ last.op.kind = "WidgetsDelete"
           /\ Implied(last.pre.tree, last.op) # {}
        => last.ok /\ View(doc) = last.pre

\* /p/a and /p/a/c were deleted together and are back
DeleteWithDescendantWitness ==
    /\ last.act = "undo" /\ last.op.kind = "WidgetsDelete"
    /\ Range(last.op.widgetpaths)
          = {<<"/", "p", "/", "a">>, <<"/", "p", "/", "a", "/", "c">>}
    /\ last.op.oldwidgets = <<4>>
    /\ doc.children[2] = <<4, 5, 6>> /\ doc.children[4] = <<7>>

\* the widgets that the undo put back, in the order of the calls
RECURSIVE Reinserted(_)
Reinserted(log) ==
    IF log = <<>> THEN <<>>
    ELSE IF Head(log)[1] = "reinsert"
         THEN <<Head(log)[2]>> \o Reinserted(Tail(log))
         ELSE Reinserted(Tail(log))

\* C7: undo of OperationWidgetsDelete puts the deleted widgets back in the
\* reverse of the order of deletion, and every widget is again the child of
\* its parent at the index it had before do.
ReinsertAtOriginalIndex ==
    last.act = "undo" /\ last.op.kind = "WidgetsDelete"
        => /\ last.ok
           /\ Reinserted(doc.log) = Reverse(last.op.oldwidgets)
           /\ \A w \in WIds :
                 /\ TreeView(doc).wparent[w] = last.pre.tree.wparent[w]
                 /\ TreeView(doc).children[w] = last.pre.tree.children[w]

\* two children of /p were deleted, the later sibling named first
ReinsertAtOriginalIndexWitness ==
    /\ last.act = "undo" /\ last.op.kind = "WidgetsDelete"
    /\ last.op.widgetpaths = <<<<"/", "p", "/", "b">>, <<"/", "p", "/", "a">>>>
    /\ last.op.oldindexes = <<2, 0>>
    /\ doc.children[2] = <<4, 5, 6>>

\* C10: a command constructed in one state of the document and executed in
\* another records what undo needs from the document it is executed on, and
\* its undo gives back the document as it was at execution.
ExecutionTimeCapture ==
    /\ last.act = "do" /\ last.ok /\ last.op.kind = "SettingSet"
        => last.op.oldvalue
              = last.before.wset[ResolveFullWidgetPath(last.before,
                                                       last.op.widgetpath)]
                                [last.op.setting]
    /\ last.act = "do" /\ last.ok /\ last.op.kind = "DatasetSet"
        => last.op.olddata = last.before.data[last.op.datasetname]
    /\ last.act = "do" /\ last.ok /\ last.op.kind = "WidgetDelete"
        => last.op.oldindex
              = IndexOf(last.before.children
                            [last.before.wparent[last.op.oldwidget]],
                        last.op.oldwidget)
    /\ last.act = "undo" /\ last.s0 # last.pre
        => last.ok /\ View(doc) = last.pre

\* the setting was changed between construction and execution of the
\* command that was undone
ExecutionTimeCaptureWitness ==
    /\ last.act = "undo" /\ last.op.kind = "SettingSet"
    /\ last.s0.tree.wset[4] # last.pre.tree.wset[4]
    /\ View(doc) # last.s0
    /\ doc.wset[4] # [n \in SettingNames |-> last.op.value]


----------------------------------------------------------------------------
(* Propagating a setting *)

\* the number of levels between root and a widget below it
RECURSIVE Depth(_, _, _)
Depth(d, root, w) ==
    IF w = root THEN 0 ELSE 1 + Depth(d, root, d.wparent[w])

\* the widgets below root that pass the name and the type filter
Matching(d, op, root) ==
    {w \in Below(d, root) \ {root} :
        /\ (op.widgetname = NoneName \/ d.wname[w] = op.widgetname)
        /\ d.wtype[w] = op.widgettype}

PropagateRoot(d, op) ==
    IF op.rootpath = NonePath THEN BaseWidget
    ELSE ResolveFullWidgetPath(d, op.rootpath)

\* C11: a propagation bounded to N >= 0 levels sets the setting of exactly
\* the matching widgets at most N levels below the root (with N = 1 the
\* direct children, never a grandchild); with a negative bound it sets the
\* setting of every matching descendant; no other setting changes
PropagateDepthBound ==
    (last.act = "do" /\ last.ok /\ last.op.kind = "SettingPropagate") =>
        LET d == last.before
            op == last.op
            root == PropagateRoot(d, op)
            targets == {w \in Matching(d, op, root) :
                           op.maxlevels < 0 \/ Depth(d, root, w) <= op.maxlevels}
        IN \A w \in WIds :
              IF w \in targets
              THEN doc.wset[w][op.setpath] = Literal(op.val)
              ELSE doc.wset[w] = d.wset[w]

PropagateDepthBoundWitness ==
    /\ last.act = "do" /\ last.ok /\ last.op.kind = "SettingPropagate"
    /\ last.op.maxlevels = 1
    /\ LET d == last.before
           root == PropagateRoot(d, last.op)
       IN \E w, c \in Matching(d, last.op, root) :
             /\ d.wparent[w] = root /\ d.wparent[d.wparent[c]] = root
             /\ doc.wset[w] # d.wset[w]
             /\ doc.wset[c] = d.wset[c]
             /\ doc.wset[c][last.op.setpath] # Literal(last.op.val)

----------------------------------------------------------------------------
(* Setting a setting that is bound to another one *)

\* C16: do of OperationSettingSet records the binding of a setting that is a
\* reference and the literal value of one that is not; after do then undo a
\* reference is again a reference to the same target and a literal holds
\* the same literal
SettingSetRestoresBinding ==
    (last.ok /\ last.op.kind = "SettingSet") =>
        LET w == ResolveFullSettingPath(last.before, last.op.widgetpath,
                                        last.op.setting)
            now == doc.wset[w][last.op.setting]
        IN /\ last.act = "do" =>
                 LET old == last.before.wset[w][last.op.setting]
                 IN last.op.oldvalue = IF old.isref THEN Reference(old.target)
                                       ELSE Literal(old.val)
           /\ last.act = "undo" =>
                 LET old == last.pre.tree.wset[w][last.op.setting]
                 IN IF old.isref
                    THEN now.isref /\ now.target = old.target
                    ELSE ~now.isref /\ now.val = old.val

SettingSetRestoresBindingWitness ==
    /\ last.act = "undo" /\ last.ok /\ last.op.kind = "SettingSet"
    /\ ~last.op.value.isref
    /\ LET w == ResolveFullSettingPath(last.before, last.op.widgetpath,
                                       last.op.setting)
       IN /\ last.pre.tree.wset[w][last.op.setting].isref
          /\ ~last.before.wset[w][last.op.setting].isref
          /\ doc.wset[w][last.op.setting].isref

----------------------------------------------------------------------------
(* Deleting one widget *)

\* C19: after do of OperationWidgetDelete the widget is in no children list;
\* after undo the same widget object, its own subtree unchanged, is the child
\* of its original parent at the recorded index, and its parent reference
\* is that parent
WidgetDeleteDetachesAndRestores ==
    (last.ok /\ last.op.kind = "WidgetDelete") =>
        LET w == last.op.oldwidget
            oldparent == last.before.wparent[w]
        IN /\ last.act = "do" =>
                 /\ w = ResolveFullWidgetPath(last.before, last.op.widgetpath)
                 /\ \A p \in WIds : w \notin Range(doc.children[p])
                 /\ last.op.oldindex
                        = IndexOf(last.before.children[oldparent], w)
           /\ last.act = "undo" =>
                 LET orig == last.pre.tree.wparent[w]
                 IN /\ doc.wparent[w] = orig
                    /\ doc.children[orig][last.op.oldindex + 1] = w
                    /\ doc.children[orig] = last.pre.tree.children[orig]
                    /\ \A p \in WIds \ {orig} : w \notin Range(doc.children[p])
                    /\ \A x \in Below(doc, w) :
                          /\ doc.children[x] = last.pre.tree.children[x]
                          /\ doc.wname[x] = last.pre.tree.wname[x]
                          /\ doc.wset[x] = last.pre.tree.wset[x]
                          /\ x # w => doc.wparent[x] = last.pre.tree.wparent[x]

WidgetDeleteDetachesAndRestoresWitness ==
    /\ last.act = "undo" /\ last.ok /\ last.op.kind = "WidgetDelete"
    /\ doc.children[last.op.oldwidget] # <<>>
    /\ last.op.oldindex + 1 < Len(doc.children[doc.wparent[last.op.oldwidget]])
    /\ last.before.wparent[last.op.oldwidget] = NoneId

----------------------------------------------------------------------------
(* Tags *)

Tags(d, name) == d.obj[d.data[name]].tags

\* C13: do of OperationDataTag adds the tag to the listed datasets that lack
\* it and records only those; a dataset that carried the tag already is not
\* recorded and undo removes nothing from it (it still carries the tag it
\* carried before undo), a newly tagged one loses the tag on undo
IdempotentTagging ==
    (last.ok /\ last.op.kind = "DataTag") =>
        LET op == last.op
            listed == Range(op.datasetnames)
        IN /\ last.act = "do" =>
                 /\ Range(op.removetags)
                       = {n \in listed : op.tag \notin Tags(last.before, n)}
                 /\ \A n \in listed : op.tag \in Tags(doc, n)
                 /\ \A n \in listed :
                       op.tag \in Tags(last.before, n)
                           => Tags(doc, n) = Tags(last.before, n)
           /\ last.act = "undo" =>
                 \A n \in listed :
                    /\ op.tag \in last.pre.data[n].tags
                           => /\ n \notin Range(op.removetags)
                              /\ Tags(doc, n) = Tags(last.before, n)
                    /\ op.tag \notin last.pre.data[n].tags
                           => op.tag \notin Tags(doc, n)

IdempotentTaggingWitness ==
    /\ last.act = "undo" /\ last.ok /\ last.op.kind = "DataTag"
    /\ \E n, m \in Range(last.op.datasetnames) :
          /\ last.op.tag \in last.pre.data[n].tags
          /\ last.op.tag \in Tags(doc, n)
          /\ last.op.tag \in Tags(last.before, m)
          /\ last.op.tag \notin Tags(doc, m)

\* C14: do of OperationDataUntag on datasets of the document returns
\* normally also when one of them does not carry the tag
UntagAbsentIsNoop ==
    (/\ last.act = "do" /\ last.op.kind = "DataUntag"
     /\ \A n \in Range(last.op.datasetnames) : HasData(last.before, n))
        => last.ok

----------------------------------------------------------------------------
(* Rows *)

\* C12: deleting the rows [row, row+numrows) of a dataset and undoing gives
\* back every column, data and error bars, with its original values;
\* inserting rows and undoing leaves the original values unchanged
RowEditRoundTrip ==
    (/\ last.act = "undo" /\ last.ok
     /\ last.op.kind \in {"DatasetDeleteRow", "DatasetInsertRow"}) =>
        /\ DataView(doc)[last.op.datasetname].cols
              = last.pre.data[last.op.datasetname].cols
        /\ DataView(doc) = last.pre.data

RowEditRoundTripWitness ==
    /\ last.act = "undo" /\ last.ok /\ last.op.kind = "DatasetDeleteRow"
    /\ last.op.numrows > 1 /\ last.op.row > 0
    /\ doc.obj[doc.data[last.op.datasetname]].cols.serr # NoneCol
    /\ last.op.saveddata.serr
          = SubSeq(doc.obj[doc.data[last.op.datasetname]].cols.serr,
                   last.op.row + 1, last.op.row + last.op.numrows)
    /\ Rows(last.before, last.op.datasetname)
          < Rows(doc, last.op.datasetname)

----------------------------------------------------------------------------
(* Moving a widget up or down *)

\* C15: OperationWidgetMoveUpDown records whether moveChild moved the widget;
\* when it did not, undo leaves the order of the siblings unchanged; when it
\* did, undo makes exactly one call of moveChild, in the opposite direction,
\* and the original order is back
MoveUpDownRecordsSwap ==
    (last.ok /\ last.op.kind = "WidgetMoveUpDown") =>
        LET op == last.op
            widget == ResolveFullWidgetPath(last.before, op.newpath)
            parent == last.before.wparent[widget]
        IN /\ last.act = "do" =>
                 /\ op.suceeded = Bool(doc.children[parent]
                                         # last.before.children[parent])
                 /\ op.suceeded = Bool(doc.log # <<>>)
           /\ (last.act = "undo" /\ op.suceeded = Bool(FALSE)) =>
                 /\ doc.log = <<>>
                 /\ doc.children = last.before.children
           /\ (last.act = "undo" /\ op.suceeded = Bool(TRUE)) =>
                 /\ doc.log = <<<<"moveChild", widget, 0 - op.direction>>>>
                 /\ doc.children[parent] # last.before.children[parent]
                 /\ doc.children = last.pre.tree.children

MoveUpDownRecordsSwapWitness ==
    /\ last.act = "undo" /\ last.ok /\ last.op.kind = "WidgetMoveUpDown"
    /\ last.op.suceeded = Bool(FALSE)
    /\ last.op.direction = 1
    /\ Len(doc.children[doc.wparent[ResolveFullWidgetPath(doc, last.op.newpath)]])
          > 1

----------------------------------------------------------------------------
(* Moving a widget to another place *)

MovedChild == ResolveFullWidgetPath(last.before, IF last.act = "do"
                                                 THEN last.op.oldchildpath
                                                 ELSE last.op.newchildpath)

\* the number of children of parent that have the name
Count(d, parent, name) ==
    Cardinality({i \in 1..Len(d.children[parent]) :
                    d.wname[d.children[parent][i]] = name})

\* C17: a widget moved to another parent that has a child of its name gets
\* a name no other child of the new parent has, and its original name is
\* recorded (no name is recorded when there is no such child); undo puts the
\* widget back under its old parent at its old index with its original
\* name, and the children of the new parent are as before the move
CrossParentMoveRenames ==
    (last.ok /\ last.op.kind = "WidgetMove"
             /\ last.op.movemode = "differentparent") =>
        LET op == last.op
            child == MovedChild
            newparent == ResolveFullWidgetPath(last.before, op.newparentpath)
        IN /\ last.act = "do" =>
                 IF Count(last.before, newparent, last.before.wname[child]) > 0
                 THEN /\ op.oldname = last.before.wname[child]
                      /\ doc.wname[child] # op.oldname
                      /\ doc.wparent[child] = newparent
                      /\ Count(doc, newparent, doc.wname[child]) = 1
                 ELSE /\ op.oldname = NoneName
                      /\ doc.wname[child] = last.before.wname[child]
           /\ last.act = "undo" =>
                 LET oldparent == last.pre.tree.wparent[child]
                 IN /\ doc.wparent[child] = oldparent
                    /\ IndexOf(doc.children[oldparent], child)
                          = IndexOf(last.pre.tree.children[oldparent], child)
                    /\ op.oldchildindex = IndexOf(doc.children[oldparent], child)
                    /\ doc.wname[child] = last.pre.tree.wname[child]
                    /\ doc.children[newparent]
                          = last.pre.tree.children[newparent]
                    /\ doc.children[oldparent]
                          = last.pre.tree.children[oldparent]

CrossParentMoveRenamesWitness ==
    /\ last.act = "undo" /\ last.ok /\ last.op.kind = "WidgetMove"
    /\ last.op.movemode = "differentparent"
    /\ last.op.oldname # NoneName
    /\ doc.wname[MovedChild] = last.op.oldname
    /\ last.before.wname[MovedChild] # last.op.oldname
    /\ last.op.oldchildindex > 0

\* C18: a widget moved within its parent to the index k, counted in the list
\* of siblings before the move (a negative k appends), is then immediately
\* before the sibling that was at position k, or last when k is negative or
\* the length of the list; the other siblings keep their order; undo puts
\* the widget back at its original index
SameParentMoveIndex ==
    (last.ok /\ last.op.kind = "WidgetMove"
             /\ last.op.movemode = "sameparent") =>
        LET op == last.op
            child == MovedChild
            parent == last.before.wparent[child]
            now == doc.children[parent]
            pos == IndexOf(now, child) + 1
        IN /\ last.act = "do" =>
                 LET was == last.before.children[parent]
                     k == IF last.given.newindex < 0 THEN Len(was)
                          ELSE last.given.newindex
                 IN /\ RemoveAt(now, pos) = RemoveAt(was, op.oldchildindex + 1)
                    /\ was[op.oldchildindex + 1] = child
                    /\ IF k = Len(was) THEN pos = Len(now)
                       ELSE IF k = op.oldchildindex THEN now = was
                       ELSE pos < Len(now) /\ now[pos + 1] = was[k + 1]
           /\ last.act = "undo" =>
                 /\ now = last.pre.tree.children[parent]
                 /\ pos = op.oldchildindex + 1
                 /\ doc.wparent[child] = parent

SameParentMoveIndexWitness ==
    /\ last.act = "do" /\ last.ok /\ last.op.kind = "WidgetMove"
    /\ last.op.movemode = "sameparent"
    /\ last.given.newindex > last.op.oldchildindex + 1
    /\ last.given.newindex < Len(doc.children[doc.wparent[MovedChild]])

----------------------------------------------------------------------------
(* Adding a column *)

----------------------------------------------------------------------------
(* Validation *)

\* C21: validateExpression of the expression and of the 2D creation
\* operations installs, replaces and removes no dataset, whether it reports
\* success or failure: the dataset map is the same before and after
ValidationLeavesDatasets ==
    last.act = "validate" =>
        /\ doc.data = last.before.data
        /\ DataView(doc) = last.pre.data

ValidationLeavesDatasetsWitness ==
    /\ last.act = "validate" /\ last.ok /\ ~last.result
    /\ last.op.kind = "DatasetCreateExpression"
    /\ HasData(doc, last.op.datasetname)

\* C22: validateExpression of a 2D creation operation raises
\* CreateDatasetException when a dimension of the evaluated matrix has
\* length zero, and does not raise it when no dimension has
DegenerateShapeRaises ==
    (last.act = "validate" /\ last.op.kind \in TwoDKinds) =>
        LET m == last.op.evaldata
            degenerate == m = <<>> \/ \E i \in 1..Len(m) : m[i] = <<>>
        IN (last.exc = "CreateDatasetException") <=> degenerate

DegenerateShapeRaisesWitness ==
    /\ last.act = "validate" /\ last.op.kind \in TwoDKinds
    /\ last.exc = "CreateDatasetException"
    /\ last.op.evaldata # <<>>

(* Dataset plugins *)

\* C23: validate of OperationDatasetPlugin can be run before the command is
\* committed: it makes one evaluation pass of the plugin and raises nothing
\* but the plugin's own error, while no dataset made by the plugin is in the
\* document
PluginValidateBeforeCommit ==
    (last.act = "validate" /\ last.op.kind = "DatasetPlugin")
        => /\ last.exc \in {None, "DatasetPluginException"}
           /\ Len(Called(doc.log, "update", 0)) = 1
           /\ \A n \in DsNames : doc.data[n] \notin Range(last.op.manager)

\* C24: whatever the renames and the datasets of the document, undo of
\* OperationDatasetPlugin leaves the dataset map as it was before do
PluginRoundTrip ==
    (last.act = "undo" /\ last.op.kind = "DatasetPlugin")
        => /\ last.ok
           /\ DataView(doc) = last.pre.data

(* Datasets of a file *)

\* the dataset called n of document d is linked to the file
LinkedTo(d, n, filename) ==
    /\ HasData(d, n)
    /\ d.obj[d.data[n]].linked # None
    /\ Filename(d.obj[d.data[n]].linked) = filename

\* C25: the by-file operations act on exactly the datasets whose link has
\* the given filename: unlinking clears the link of those and changes
\* nothing else of them, deleting removes those; every other dataset is as
\* it was; undo puts back every link cleared and every dataset removed
ByFileActsOnMatching ==
    /\ (last.act = "do" /\ last.op.kind = "DatasetUnlinkByFile")
          => /\ last.ok
             /\ doc.data = last.before.data
             /\ \A n \in DsNames :
                   IF LinkedTo(last.before, n, last.op.filename)
                   THEN DataView(doc)[n] =
                            [last.pre.data[n] EXCEPT !.linked = None,
                                                     !.renames = {}]
                   ELSE DataView(doc)[n] = last.pre.data[n]
    /\ (last.act = "do" /\ last.op.kind = "DatasetDeleteByFile")
          => /\ last.ok
             /\ \A n \in DsNames :
                   IF LinkedTo(last.before, n, last.op.filename)
                   THEN ~HasData(doc, n)
                   ELSE DataView(doc)[n] = last.pre.data[n]
    /\ (last.act = "undo"
          /\ last.op.kind \in {"DatasetUnlinkByFile", "DatasetDeleteByFile"})
          => /\ last.ok
             /\ DataView(doc) = last.pre.data

\* a file with two datasets, and a dataset of another file, have been there
ByFileActsOnMatchingWitness ==
    /\ last.act = "undo"
    /\ last.op.kind \in {"DatasetUnlinkByFile", "DatasetDeleteByFile"}
    /\ last.op.filename = "a.dat"
    /\ \E n \in DsNames : LinkedTo(doc, n, "a.dat")
    /\ \E n \in DsNames : LinkedTo(doc, n, "b.dat")

(* Order of the children of a composite *)

\* 1, 2, ..., k
Upto(k) == [i \in 1..k |-> i]

\* C26: do of OperationMultiple calls do of its children in list order; its
\* undo calls undo of the same children in exactly the reverse order, once
\* for each child (up to a child whose undo raises, which ends the undo)
ChildrenInReverse ==
    /\ (last.act = "do" /\ last.op.kind = "Multiple" /\ last.ok)
          => Called(last.atreturn.log, "do", last.op.id)
                = Upto(Len(last.atreturn.ops[last.op.id]))
    /\ (last.act = "undo" /\ last.op.kind = "Multiple")
          => LET n == Len(last.before.ops[last.op.id])
                 undone == Called(last.atreturn.log, "undo", last.op.id)
             IN /\ last.atreturn.ops[last.op.id] = last.before.ops[last.op.id]
                /\ Len(undone) <= n
                /\ undone = SubSeq(Downto(n), 1, Len(undone))
                /\ last.ok => undone = Downto(n)
                /\ Called(last.atreturn.log, "do", last.op.id) = <<>>

\* a composite of three commands, not all the same, has been undone
ChildrenInReverseWitness ==
    /\ last.act = "undo" /\ last.op.kind = "Multiple" /\ last.ok
    /\ Len(doc.ops[last.op.id]) = 3
    /\ doc.ops[last.op.id][1].kind # doc.ops[last.op.id][3].kind

(* Custom definitions *)

\* C27: do of OperationSetCustom keeps a copy of the document's list of
\* customs and replaces the whole list by the new values; undo puts back a
\* list equal to the one before; do and undo each call updateEvalContext
\* once, after the list has been changed
SetCustomReplacesList ==
    /\ (last.act = "do" /\ last.op.kind = "SetCustom")
          => /\ last.ok
             /\ doc.customs = last.op.customvals
             /\ last.op.oldval = last.before.customs
             /\ Called(doc.log, "updateEvalContext", 0) = <<0>>
             /\ doc.evalcontext = doc.customs
    /\ (last.act = "undo" /\ last.op.kind = "SetCustom")
          => /\ last.ok
             /\ doc.customs = last.pre.customs
             /\ Called(doc.log, "updateEvalContext", 0) = <<0>>
             /\ doc.evalcontext = doc.customs

\* a list of two customs was replaced by a different list and put back
SetCustomReplacesListWitness ==
    /\ last.act = "undo" /\ last.op.kind = "SetCustom"
    /\ Len(doc.customs) = 2
    /\ last.op.customvals # <<>>
    /\ last.op.customvals # doc.customs

(* Undoing and redoing *)

\* C28: when all the commands committed through the document have been
\* undone, last one first, the document is the initial one; when they have
\* then all been redone, the document is the one the commits had produced
UndoAllRedoAll ==
    /\ (last.act = "undo" /\ doc.historyundo = <<>>)
          => /\ last.ok
             /\ View(doc) = last.pre
    /\ (last.act = "redo" /\ doc.historyredo = <<>>)
          => /\ last.ok
             /\ View(doc) = last.post

\* C29: do, undo, do of OperationWidgetMove leaves the widget tree as the
\* first do left it, whatever the index given (negative, or a later position
\* under the same parent)
MoveRedoRepeats ==
    (last.act = "redo" /\ last.op.kind = "WidgetMove")
        => /\ last.ok
           /\ TreeView(doc) = last.post.tree

\* C30: after do, undo, do of a history-driving composite its children are
\* the commands issued during the latest run, each once, and an undo that
\* follows gives back the document as it was before the first do
CompositeRedoRepeats ==
    (last.act = "redo" /\ last.op.kind \in HistoryDriving)
        => LET d == last.atreturn
               k == Succeeding(last.before, last.op.run, 1)
               r == Undo(ResetLog(d), last.op)
           IN /\ last.ok
              /\ FreshAll(d.ops[last.op.id]) = SubSeq(last.op.run.cmds, 1, k)
              /\ r.ok
              /\ View(r.doc) = last.pre

(* Pruning the selection *)

\* the widget at path p is strictly below the widget at path q in tree d
StrictlyBelow(d, p, q) ==
    LET w == ResolveFullWidgetPath(d, p)
        v == ResolveFullWidgetPath(d, q)
    IN w # v /\ w \in Below(d, v)

\* C31: of the paths given to OperationWidgetsDelete, do keeps those that
\* have no strict ancestor among the paths given: no kept path is strictly
\* below another kept path, every path given is kept or is below a kept
\* one, and a path is not dropped for a path that is only a prefix of its
\* string (/p/a and /p/ab are both kept); the kept paths are the widgets
\* that do deletes
PruningKeepsTopmost ==
    (last.act = "do" /\ last.op.kind = "WidgetsDelete") =>
        LET given == last.given.widgetpaths
            kept == Prune(given)
            d == last.before
        IN /\ Range(kept) \subseteq Range(given)
           /\ \A i, j \in 1..Len(kept) : ~StrictlyBelow(d, kept[i], kept[j])
           /\ \A p \in Range(given) :
                 \/ p \in Range(kept)
                 \/ \E q \in Range(kept) : StrictlyBelow(d, p, q)
           /\ \A p \in Range(given) :
                 p \in Range(kept)
                    <=> ~\E q \in Range(given) : StrictlyBelow(d, p, q)
           /\ last.ok
           /\ Len(last.op.oldwidgets) = Len(kept)
           /\ \A i \in 1..Len(kept) :
                 i <= Len(last.op.oldwidgets)
                    /\ last.op.oldwidgets[i] = ResolveFullWidgetPath(d, kept[i])

\* /p/a/c, /p/ab and /p/a were selected: /p/a/c went with /p/a, /p/ab stayed
PruningKeepsTopmostWitness ==
    /\ last.act = "do" /\ last.op.kind = "WidgetsDelete"
    /\ last.given.widgetpaths
          = << <<"/", "p", "/", "a", "/", "c">>, <<"/", "p", "/", "a", "b">>,
               <<"/", "p", "/", "a">> >>
    /\ last.op.oldwidgets = <<4, 5>>

(* The widget tree *)

\* the places (parent, position) where widget w is a child
Places(d, w) ==
    {<<p, i>> \in WIds \X (1..Cardinality(WIds)) :
        i <= Len(d.children[p]) /\ d.children[p][i] = w}

\* the widgets that the delete commands on the undo stack hold
RECURSIVE HeldWidgets(_)
HeldWidgets(ops) ==
    IF ops = <<>> THEN {}
    ELSE HeldWidgets(Tail(ops)) \cup
         (CASE Head(ops).kind = "WidgetDelete" -> {Head(ops).oldwidget}
            [] Head(ops).kind = "WidgetsDelete" -> Range(Head(ops).oldwidgets)
            [] OTHER -> {})

\* C32: after any widget commands and undos, every widget reachable from
\* the base widget is a child at exactly one place, the place is under its
\* parent and the parent is reachable; and a widget held by a delete command
\* that can be undone is the child of no widget
TreeWellFormed ==
    /\ Places(doc, BaseWidget) = {}
    /\ doc.wparent[BaseWidget] = NoneId
    /\ \A w \in Below(doc, BaseWidget) \ {BaseWidget} :
          /\ Cardinality(Places(doc, w)) = 1
          /\ \A pl \in Places(doc, w) : pl[1] = doc.wparent[w]
          /\ doc.wparent[w] \in Below(doc, BaseWidget)
    /\ \A w \in HeldWidgets(doc.historyundo) : Places(doc, w) = {}

\* a widget was deleted, then another was moved to another parent and the
\* move was undone, while the delete command still holds its widget
TreeWellFormedWitness ==
    /\ last.act = "undo" /\ last.ok /\ last.op.kind = "WidgetMove"
    /\ last.op.movemode = "differentparent"
    /\ HeldWidgets(doc.historyundo) # {}
    /\ Cardinality(Below(doc, BaseWidget)) >= 4

(* The widgets a propagation changes *)

\* the widgets whose setting a propagation is to change
PropagateTargets(d, op) ==
    {w \in Matching(d, op, PropagateRoot(d, op)) :
        op.maxlevels < 0 \/ Depth(d, PropagateRoot(d, op), w) <= op.maxlevels}

\* C33: do of a propagation changes the setting of exactly the widgets below
\* the root that have the type of the source widget and, if a name is given,
\* that name, within the depth bound, and records their values; the root
\* and every other widget keep their settings and the tree keeps its shape;
\* undo gives every setting the value it had before do
PropagateFrame ==
    /\ (last.act = "do" /\ last.ok /\ last.op.kind = "SettingPropagate") =>
          LET d == last.before
              op == last.op
              targets == PropagateTargets(d, op)
          IN /\ PropagateRoot(d, op) \notin targets
             /\ \A w \in WIds \ targets : doc.wset[w] = d.wset[w]
             /\ \A w \in targets :
                   /\ Get(doc, doc.wset[w][op.setpath]) = op.val
                   /\ \A n \in SettingNames \ {op.setpath} :
                         doc.wset[w][n] = d.wset[w][n]
                   /\ DictGet(op.restorevals, WidgetPath(d, w))
                         = Get(d, d.wset[w][op.setpath])
             /\ DictKeys(op.restorevals) = {WidgetPath(d, w) : w \in targets}
             /\ TreeView(doc).children = TreeView(d).children
             /\ TreeView(doc).wname = TreeView(d).wname
    /\ (last.act = "undo" /\ last.ok /\ last.op.kind = "SettingPropagate") =>
          LET d == last.before
              op == last.op
          IN \A w \in WIds, n \in SettingNames :
                /\ Get(doc, doc.wset[w][n]) = Get(doc, last.pre.tree.wset[w][n])
                /\ WidgetPath(d, w) \notin DictKeys(op.restorevals)
                      => doc.wset[w] = d.wset[w]

\* a propagation that changed the values of two widgets is undone
PropagateFrameWitness ==
    /\ last.act = "undo" /\ last.ok /\ last.op.kind = "SettingPropagate"
    /\ Len(last.op.restorevals) >= 2
    /\ \E w, v \in WIds :
          /\ w # v
          /\ Get(doc, doc.wset[w]["color"]) # last.op.val
          /\ Get(doc, doc.wset[v]["color"]) # last.op.val
          /\ Get(last.before, last.before.wset[w]["color"]) = last.op.val
          /\ Get(last.before, last.before.wset[v]["color"]) = last.op.val
          /\ doc.wset[w] # last.before.wset[w]
          /\ doc.wset[v] # last.before.wset[v]

(* Adding a column and removing it again *)

\* C34: after do then undo of OperationDatasetAddColumn the named column of
\* the dataset is as it was before do: None if the dataset had no such
\* column, its values if it had
AddColumnRoundTrip ==
    (last.act = "undo" /\ last.ok /\ last.op.kind = "DatasetAddColumn") =>
        LET n == last.op.datasetname
            c == last.op.columnname
        IN /\ HasData(doc, n)
           /\ DataView(doc)[n].cols[c] = last.pre.data[n].cols[c]

(* Joining the lines that are continued *)

\* the items of a line that are no comments
Items(line) == SelectSeq(line, NotComment)

\* a line whose last item is a backslash is continued on the next line
Continues(line) == Items(line) # <<>> /\ Last(Items(line)) = Backslash

\* the last line of the logical line that starts after line p
RECURSIVE LogicalEnd(_, _)
LogicalEnd(file, p) ==
    IF p + 1 >= Len(file) \/ ~Continues(file[p + 1]) THEN p + 1
    ELSE LogicalEnd(file, p + 1)

\* the items of the lines p+1..q, without the backslashes that continue them
RECURSIVE Joined(_, _, _)
Joined(file, p, q) ==
    IF p >= q THEN <<>>
    ELSE (IF Continues(file[p + 1]) THEN Front(Items(file[p + 1]))
          ELSE Items(file[p + 1])) \o Joined(file, p + 1, q)

\* C37: newLine returns False, and does nothing, when every line has been
\* read; otherwise it returns True once for the next logical line (a line
\* and the lines that continue it), whose items that are no comments it
\* appends to the buffer in order, without the backslashes at the ends of
\* the lines; flushLine empties the buffer and reads nothing
NewLineJoins ==
    /\ last.act = "newLine" =>
          LET s == last.before
          IN IF s.pos >= Len(s.file)
             THEN ~last.result /\ pending = s
             ELSE LET q == LogicalEnd(s.file, s.pos)
                  IN /\ last.result
                     /\ pending.pos = q
                     /\ pending.remainingline =
                           s.remainingline \o Joined(s.file, s.pos, q)
    /\ last.act = "flushLine" =>
          pending = [last.before EXCEPT !.remainingline = <<>>]

(* Reading in blocks *)

\* a line of a source that holds data, and one that starts a block: the
\* first line of data, or a line of data after a line that separates
IsData(file, i) == ~IsBlank(Items(file[i]))
StartsBlock(file, i) == IsData(file, i) /\ (i = 1 \/ ~IsData(file, i - 1))

\* the number of the block a line of data belongs to
BlockOf(file, i) == Cardinality({j \in 1..i : StartsBlock(file, j)})

\* the k-th numbers of the lines of block b that have that many, in order
RECURSIVE ValuesAt(_, _, _, _)
ValuesAt(file, b, k, i) ==
    IF i > Len(file) THEN <<>>
    ELSE (IF IsData(file, i) /\ BlockOf(file, i) = b /\ Len(file[i]) >= k
          THEN <<FloatOf(file[i][k])>> ELSE <<>>)
         \o ValuesAt(file, b, k, i + 1)

\* the place in a line of the c-th column of the i-th part
RECURSIVE PlaceOf(_, _, _)
PlaceOf(parts, i, c) ==
    IF i = 1 THEN c ELSE Len(parts[i - 1].columns) + PlaceOf(parts, i - 1, c)

\* C35: after a source was read in blocks, the blocks are numbered 1, 2, ...
\* without a gap, as many as there are runs of lines of data: blank lines
\* before the first line of data and several blank lines in a row make no
\* block; every block holds data; and every dataset of the reader is that
\* of a part and a block and holds the values of the lines of that block
BlocksContiguous ==
    (last.act = "readData" /\ last.useblocks) =>
        LET file == last.before.stream.file
            rd == pending.reader
            n == Cardinality({j \in 1..Len(file) : StartsBlock(file, j)})
            columns == {<<i, c>> \in (1..Len(rd.parts)) \X (1..2) :
                           c <= Len(rd.parts[i].columns)}
        IN /\ rd.blocks = [b \in 1..n |-> b]
           /\ \A b \in 1..n :
                 ListOf(rd.datasets, <<PartName(rd.parts[1], 1, b), "D">>)
                    # <<>>
           /\ DictKeys(rd.datasets) \subseteq
                 {<<PartName(rd.parts[x[1]], 1, b), rd.parts[x[1]].columns[x[2]]>> :
                     x \in columns, b \in 1..n}
           /\ \A x \in columns, b \in 1..n :
                 ListOf(rd.datasets, <<PartName(rd.parts[x[1]], 1, b),
                                       rd.parts[x[1]].columns[x[2]]>>)
                    = ValuesAt(file, b, PlaceOf(rd.parts, x[1], x[2]), 1)

\* a source with a blank line first and two separating lines in a row
\* between its two lines of data was read in blocks
BlocksContiguousWitness ==
    /\ last.act = "readData" /\ last.useblocks
    /\ last.before.stream.file =
          <<<<>>, <<Name("1")>>, <<>>, <<<<"N", "o">>>>, <<Name("2"), Name("3")>>>>
    /\ pending.reader.blocks = <<1, 2>>
    /\ Len(pending.reader.parts) = 2
    /\ ListOf(pending.reader.datasets, <<<<"1", "_", "2">>, "D">>) = <<2>>

(* Lists of the same length *)

\* the column of a dataset that holds the list read for a column of a part
ColumnOf(col) ==
    CASE col = "D" -> "data" [] col = "+" -> "perr" [] col = "-" -> "nerr"
      [] col = "+-" -> "serr"

\* C36: a dataset that setInDocument of a part installs holds, for the
\* values and for every kind of error that was read, the list cut to the
\* length of the shortest of them (and then its last 'tail' entries), so all
\* its columns have one length; the lists of the reader are cut as well; a
\* part that has read nothing installs nothing
ColumnsSameLength ==
    (last.act = "setInDocument" /\ pending.kind = "DescriptorPart") =>
        LET p == last.before.part
            name == PartName(p, 1, NoBlock)
            read == ReadColumns(last.before.datasets, name)
            m == MinLength(last.before.datasets, name)
            n == IF last.tail \in {NoTail, 0} \/ last.tail >= m THEN m
                 ELSE last.tail
        IN IF p.datatype = None
           THEN last.names = <<>> /\ doc = NewDocument
           ELSE /\ last.names = <<name>>
                /\ DictKeys(doc.data) = {name}
                /\ \A col \in {"D", "+", "-", "+-"} :
                      LET v == DictGet(doc.data, name).cols[ColumnOf(col)]
                          l == DictGet(last.before.datasets, <<name, col>>)
                      IN IF col \in read /\ (p.datatype = "float" \/ col = "D")
                         THEN /\ v # NoneCol
                              /\ Len(v) = n
                              /\ v = SubSeq(l, m - n + 1, m)
                         ELSE v = NoneCol
                /\ \A col \in read :
                      DictGet(pending.datasets, <<name, col>>)
                         = SubSeq(DictGet(last.before.datasets, <<name, col>>),
                                  1, m)

\* the values and the three kinds of errors were read, each list of another
\* length, and a dataset of numbers was installed
ColumnsSameLengthWitness ==
    /\ last.act = "setInDocument" /\ pending.kind = "DescriptorPart"
    /\ last.before.part.datatype = "float" /\ last.tail = NoTail
    /\ LET ds == last.before.datasets
           name == PartName(last.before.part, 1, NoBlock)
       IN /\ ReadColumns(ds, name) = {"D", "+", "-", "+-"}
          /\ Len(DictGet(ds, <<name, "D">>)) = 3
          /\ Len(DictGet(ds, <<name, "+">>)) = 2
          /\ Len(DictGet(ds, <<name, "-">>)) = 1
          /\ Len(DictGet(ds, <<name, "+-">>)) = 3
          /\ DictGet(doc.data, name).cols = Cols(<<1>>, <<1>>, <<1>>, <<1>>)

(* The grids of a 2D dataset *)

\* C38: after readData of the 2D reader has returned, a grid that is set
\* has one entry more than the matrix has columns (x) or rows (y), whether
\* the parameters gave the grid or it was made from the numbers at the edge
GridsFitData ==
    (last.act = "readData2D" /\ last.ok) =>
        LET rd == pending.reader
        IN /\ rd.xgrid # NoneCol => Len(rd.xgrid) = rd.shape[2] + 1
           /\ rd.ygrid # NoneCol => Len(rd.ygrid) = rd.shape[1] + 1


(* Transposing a 2D dataset *)

\* C39: if a source with numbers at the edge is read without transposing
\* and gives a matrix and grids that fit it, then reading it with transpose
\* gives the transposed matrix, the x grid that was the y grid and the y
\* grid that was the x grid
TransposeExchangesGrids ==
    (/\ last.act = "readData2D"
     /\ pending.reader.params.transpose
     /\ pending.reader.params.gridatedge) =>
        LET s == last.before
            plain == ReadData2D([s.reader EXCEPT !.params.transpose = FALSE],
                                s.stream)
            rd == pending.reader
        IN (/\ plain.ok
            /\ Len(plain.reader.xgrid) = plain.reader.shape[2] + 1
            /\ Len(plain.reader.ygrid) = plain.reader.shape[1] + 1) =>
              /\ last.ok
              /\ rd.shape = <<plain.reader.shape[2], plain.reader.shape[1]>>
              /\ rd.data = Transposed(plain.reader.data, plain.reader.shape)
              /\ rd.xgrid = plain.reader.ygrid
              /\ rd.ygrid = plain.reader.xgrid

====
